---- MODULE Spec2Model ----
(***************************************************************************)
(* chora-store: EntityRepository (SQLite persistence with optimistic       *)
(* concurrency and the entity_versions change log) and SyncableRepository  *)
(* (bidirectional sync between two sites through a ChangeTracker).         *)
(*                                                                         *)
(* Every `with self._connection()` block of repository.py is one SQLite    *)
(* transaction: it commits as a whole or rolls back as a whole, and SQLite *)
(* serialises write transactions on one backing file, so each block is one *)
(* step of the model.  Statements issued outside a write transaction (the  *)
(* SELECT that opens delete) are steps of their own.                       *)
(***************************************************************************)
EXTENDS Integers, Sequences, FiniteSets, TLC

\* ------------------------------------------------------------------ bounds
\* successful mutations by callers in one behaviour
MaxOps == 3
\* the largest version field of an entity a caller passes
MaxInputVersion == 2
\* sync_with calls in one behaviour
MaxSyncs == 2
\* apply_remote_changes calls in one behaviour
MaxApplies == 2
\* sync_with calls in one behaviour in which a second process writes to the
\* local site
MaxConcurrentSyncs == 1
\* ConflictQueue.add calls between two clears
MaxAdds == 3
\* the largest version of a remote payload handed to detect_conflict
MaxRemoteVersion == 3
\* the latest hour of the wall clock in a timestamp of a Conflict
MaxHour == 2

\* --------------------------------------------------------------- constants
Sites == {"A", "B"}
\* connections opened on one backing file, and the site whose file it is
Writers == {"w1", "w2"}
DbSite == "A"

VALID_TYPES ==
  {"feature", "pattern", "context", "capability", "learning", "task", "release"}
ALL_VALID_STATUSES ==
  {"planned", "in_progress", "complete", "blocked", "deprecated", "proposed",
   "adopted", "active", "paused", "completed", "abandoned", "documented",
   "mitigated", "propagated", "open", "draft", "published"}

\* ids are "{type}-{slug}"; IdType gives the type prefix of each id in use
Ids == {"feature-x", "task-y"}
IdType == [i \in Ids |-> IF i = "feature-x" THEN "feature" ELSE "task"]

\* entity.data: string-keyed mappings
KeyOrder == <<"name">>
NoData == [k \in {} |-> "A"]
NameData == [k \in {"name"} |-> "A"]

\* the (status, data) payloads callers pass; "bogus" is a status outside
\* ALL_VALID_STATUSES
Payloads ==
  { <<"planned", NoData>>, <<"complete", NameData>>, <<"bogus", NoData>> }

None == [none |-> TRUE]

\* a bool or an int that a call returns or an exception reports (the values
\* of a call are kept as records)
Scalar(x) == [scalar |-> x]

\* no site: the site of a call when no sync_with is in progress
NoSite == "none"

\* ------------------------------------------------------------- conversions
\* json.dumps of a mapping: the key/value pairs in order
json_dumps(d) ==
  LET ks == SelectSeq(KeyOrder, LAMBDA k : k \in DOMAIN d)
  IN  [i \in 1..Len(ks) |-> <<ks[i], d[ks[i]]>>]

\* json.loads: the mapping of the pairs, a later pair of a key winning
json_loads(t) ==
  [k \in {t[i][1] : i \in 1..Len(t)} |->
     LET i == CHOOSE i \in 1..Len(t) :
                 t[i][1] = k /\ \A j \in (i+1)..Len(t) : t[j][1] # k
     IN  t[i][2]]

\* datetime.isoformat / datetime.fromisoformat
isoformat(t) == <<"iso", t>>
fromisoformat(s) == s[2]

\* f"{entity_id}:{version}", the primary key of entity_versions
VersionKey(id, v) == <<id, ":", v>>

\* CAST(SUBSTR(id, INSTR(id, ':') + 1) AS INTEGER)
KeyCounter(key) ==
  LET p == CHOOSE p \in 1..Len(key) :
              key[p] = ":" /\ \A q \in 1..(p-1) : key[q] # ":"
  IN  key[p + 1]

\* ------------------------------------------------------------------ Entity
\* Entity(id, type, status, data, version, created_at, updated_at)
Entity(id, st, d, v, ca, ua) ==
  [id |-> id, type |-> IdType[id], status |-> st, data |-> d,
   version |-> v, created_at |-> ca, updated_at |-> ua]

\* Entity.copy(version=v, updated_at=ua)
copy(e, v, ua) == [e EXCEPT !.version = v, !.updated_at = ua]

\* Entity.to_dict followed by json.dumps
to_dict(e) ==
  [id |-> e.id, type |-> e.type, status |-> e.status,
   data |-> json_dumps(e.data), version |-> e.version,
   created_at |-> isoformat(e.created_at),
   updated_at |-> isoformat(e.updated_at)]

\* json.loads followed by Entity.from_dict
from_dict(d) ==
  [id |-> d.id, type |-> d.type, status |-> d.status,
   data |-> json_loads(d.data), version |-> d.version,
   created_at |-> fromisoformat(d.created_at),
   updated_at |-> fromisoformat(d.updated_at)]

\* EntityRepository._row_to_entity
_row_to_entity(row) ==
  [id |-> row.id, type |-> row.type, status |-> row.status,
   data |-> json_loads(row.data), version |-> row.version,
   created_at |-> fromisoformat(row.created_at),
   updated_at |-> fromisoformat(row.updated_at)]

\* ------------------------------------------------------------------- state
VARIABLES
  entities,     \* [site -> [id -> row of table entities, or None]]
  versions,     \* [site -> sequence of rows of table entity_versions]
  clock,        \* [site -> datetime.utcnow() on the machine of the site]
  ret,          \* outcome of the most recent call
  dsel,         \* [writer -> the row delete has SELECTed, or None]
  changes,      \* [site -> the ChangeTracker ledger of the site]
  siteVersion,  \* [site -> [peer -> watermark recorded for the peer]]
  sync,         \* locals of the sync_with call in progress
  hist,         \* calls so far: sync_with calls, those since a mutation, the
                \* changes whose projection raised at a receiving site, and
                \* apply_remote_changes calls
  queue,        \* the ConflictQueue: _conflicts, _resolved, and the add
                \* calls since the last clear
  observer      \* the EntityObserver: _callbacks, _event_log, and the
                \* callbacks the latest emit invoked

vars == <<entities, versions, clock, ret, dsel, changes, siteVersion, sync,
          hist, queue, observer>>
auxVars == <<queue, observer>>
storeVars == <<entities, versions>>
trackerVars == <<changes, siteVersion>>

\* --------------------------------------------------------- schema checks
\* CHECK constraints of CREATE_ENTITIES_TABLE
CheckConstraints(id, type, status) ==
  /\ type \in VALID_TYPES
  /\ status \in ALL_VALID_STATUSES
  /\ IdType[id] = type

\* PRIMARY KEY of entity_versions
HasVersionKey_never(vers, key) == FALSE
HasVersionKey(vers, key) == \E i \in 1..Len(vers) : vers[i].id = key

VersionRow(eid, v, kind, now, snapshot) ==
  [id |-> VersionKey(eid, v), entity_id |-> eid, version |-> v,
   change_type |-> kind, changed_at |-> isoformat(now),
   data_snapshot |-> snapshot]

\* --------------------------------------------------- EntityRepository ops
\* Each operator gives the tables after the call, the outcome and the value
\* returned; a failed transaction is rolled back (tables as before).

Outcome(ents, vers, result, value) ==
  [entities |-> ents, versions |-> vers, result |-> result, value |-> value]

\* the rows create inserts
EntityRow(e) ==
  [id |-> e.id, type |-> e.type, status |-> e.status,
   data |-> json_dumps(e.data), version |-> 1,
   created_at |-> isoformat(e.created_at),
   updated_at |-> isoformat(e.updated_at)]

create_no_rollback(ents, vers, e, now) ==
  IF ~CheckConstraints(e.id, e.type, e.status)
    THEN Outcome(ents, vers, "schema_violation", None)
  ELSE IF ents[e.id] # None
    THEN Outcome(ents, vers, "already_exists", None)
  ELSE IF HasVersionKey(vers, VersionKey(e.id, 1))
    THEN Outcome([ents EXCEPT ![e.id] = EntityRow(e)], vers,
                 "already_exists", None)
  ELSE Outcome(
         [ents EXCEPT ![e.id] = EntityRow(e)],
         Append(vers, VersionRow(e.id, 1, "create", now, to_dict(e))),
         "ok",
         copy(e, 1, now))
create_upsert(ents, vers, e, now) ==
  IF ~CheckConstraints(e.id, e.type, e.status)
    THEN Outcome(ents, vers, "schema_violation", None)
    ELSE Outcome([ents EXCEPT ![e.id] = EntityRow(e)],
                 Append(vers, VersionRow(e.id, 1, "create", now, to_dict(e))),
                 "ok", copy(e, 1, now))

\* EntityRepository.create
create(ents, vers, e, now) ==
  IF ~CheckConstraints(e.id, e.type, e.status)
    THEN Outcome(ents, vers, "schema_violation", None)
  ELSE IF ents[e.id] # None
    THEN Outcome(ents, vers, "already_exists", None)
  ELSE IF HasVersionKey(vers, VersionKey(e.id, 1))
    THEN Outcome(ents, vers, "already_exists", None)
  ELSE Outcome(
         [ents EXCEPT ![e.id] = EntityRow(e)],
         Append(vers, VersionRow(e.id, 1, "create", now, to_dict(e))),
         "ok",
         copy(e, 1, now))

\* EntityRepository.read
read(ents, id) == IF ents[id] = None THEN None ELSE _row_to_entity(ents[id])

\* update: WHERE id = ? AND version = ?
update_where_id_only(row, e) == row.id = e.id
update_where_not_newer(row, e) == row.id = e.id /\ row.version <= e.version
update_where(row, e) == row.id = e.id /\ row.version = e.version

\* update: new_version = entity.version + 1
new_version_same(e) == e.version
new_version_of(e) == e.version + 1

\* EntityRepository.update
update(ents, vers, e, now) ==
  LET new_version == new_version_of(e)
      row == ents[e.id]
      updated_entity == copy(e, new_version, now)
  IN  IF row = None
        THEN Outcome(ents, vers, "not_found", None)
      ELSE IF ~update_where(row, e)
        THEN Outcome(ents, vers, "version_conflict", Scalar(row.version))
      ELSE IF ~CheckConstraints(row.id, row.type, e.status)
        THEN Outcome(ents, vers, "integrity_error", None)
      ELSE IF HasVersionKey(vers, VersionKey(e.id, new_version))
        THEN Outcome(ents, vers, "integrity_error", None)
      ELSE Outcome(
             [ents EXCEPT ![e.id] =
                [row EXCEPT !.status = e.status, !.data = json_dumps(e.data),
                            !.version = new_version,
                            !.updated_at = isoformat(now)]],
             Append(vers, VersionRow(e.id, new_version, "update", now,
                                     to_dict(updated_entity))),
             "ok",
             updated_entity)

\* the exception behind a result of create, update or delete for id: its
\* class and the parts of its message (the expected version and the text of
\* the SQLite error are left out)
exception_class_only(id, result, value) ==
  IF result = "integrity_error"
    THEN [class |-> "sqlite3.IntegrityError", message |-> <<"failed", 0>>]
    ELSE [class |-> "ValidationError", message |-> <<"failed", 0>>]
exception_of(id, result, value) ==
  IF result = "not_found"
    THEN [class |-> "ValidationError",
          message |-> <<"Entity '", id, "' not found">>]
  ELSE IF result = "version_conflict"
    THEN [class |-> "ValidationError",
          message |-> <<"Version conflict: expected, got ", value.scalar>>]
  ELSE IF result = "already_exists"
    THEN [class |-> "ValidationError",
          message |-> <<"Entity '", id, "' already exists">>]
  ELSE IF result = "schema_violation"
    THEN [class |-> "ValidationError",
          message |-> <<"Entity violates schema constraints: ">>]
  ELSE [class |-> "sqlite3.IntegrityError",
        message |-> <<"constraint failed">>]

\* delete: entity_snapshot, the row as SELECTed
entity_snapshot_bumped(row) ==
  [id |-> row.id, type |-> row.type, status |-> row.status,
   data |-> json_dumps(json_loads(row.data)), version |-> row.version + 1,
   created_at |-> row.created_at, updated_at |-> row.updated_at]
entity_snapshot_of(row) ==
  [id |-> row.id, type |-> row.type, status |-> row.status,
   data |-> json_dumps(json_loads(row.data)), version |-> row.version,
   created_at |-> row.created_at, updated_at |-> row.updated_at]

\* delete: the rows of entity_versions an entity's deletion leaves
versions_kept_cascade(vers, id) == SelectSeq(vers, LAMBDA r : r.entity_id # id)
versions_kept(vers, id) == vers

\* EntityRepository.delete, the transaction after the SELECT returned row
delete_row(ents, vers, row, now) ==
  LET entity_snapshot == entity_snapshot_of(row)
  IN  IF HasVersionKey(vers, VersionKey(row.id, row.version + 1))
        THEN Outcome(ents, vers, "integrity_error", None)
      ELSE Outcome(
             [ents EXCEPT ![row.id] = None],
             Append(versions_kept(vers, row.id),
                    VersionRow(row.id, row.version + 1, "delete", now,
                               entity_snapshot)),
             "ok",
             Scalar(ents[row.id] # None))

\* EntityRepository.delete with nothing interleaved between SELECT and write
delete_absent_true(ents, vers, id, now) ==
  IF ents[id] = None
    THEN Outcome(ents, vers, "ok", Scalar(TRUE))
    ELSE delete_row(ents, vers, ents[id], now)
delete(ents, vers, id, now) ==
  IF ents[id] = None
    THEN Outcome(ents, vers, "ok", Scalar(FALSE))
    ELSE delete_row(ents, vers, ents[id], now)

\* EntityRepository.get_changes_since: (entity, change_type) of the rows
\* whose key suffix exceeds since_version, ORDER BY changed_at
RECURSIVE SortByChangedAt(_)
SortByChangedAt(rows) ==
  IF rows = <<>> THEN <<>>
  ELSE LET m == CHOOSE i \in 1..Len(rows) :
                  \A j \in 1..Len(rows) :
                     \/ rows[i].changed_at[2] < rows[j].changed_at[2]
                     \/ rows[i].changed_at[2] = rows[j].changed_at[2] /\ i <= j
       IN  <<rows[m]>> \o
           SortByChangedAt([k \in 1..(Len(rows) - 1) |->
                              IF k < m THEN rows[k] ELSE rows[k + 1]])

SelectChangesSince(vers, since_version) ==
  SortByChangedAt(SelectSeq(vers,
                    LAMBDA r : KeyCounter(r.id) > since_version))

get_changes_since(vers, since_version) ==
  LET rows == SelectSeq(SelectChangesSince(vers, since_version),
                        LAMBDA r : r.data_snapshot # None)
  IN  [i \in 1..Len(rows) |->
         <<from_dict(rows[i].data_snapshot), rows[i].change_type>>]

\* -------------------------------------------------------------------- Init
SyncIdle ==
  [pc |-> "idle", local |-> NoSite, remote |-> NoSite,
   last_remote_version |-> 0, last_local_version_at_remote |-> 0,
   changes_to_send |-> <<>>,
   remote_changes |-> <<>>, local_version |-> 0, remote_version |-> 0,
   sent |-> 0, local_applied |-> 0, remote_applied |-> 0, errors |-> <<>>]

Init ==
  /\ entities = [s \in Sites |-> [i \in Ids |-> None]]
  /\ versions = [s \in Sites |-> <<>>]
  /\ clock = [s \in Sites |-> 1]
  /\ ret = [op |-> "none", id |-> "none", result |-> "none", value |-> None]
  /\ dsel = [w \in Writers |-> None]
  /\ changes = [s \in Sites |-> <<>>]
  /\ siteVersion = [s \in Sites |-> [r \in Sites |-> 0]]
  /\ sync = SyncIdle
  /\ hist = [syncs |-> 0, quiet |-> 0, failed |-> {}, applies |-> 0]
  /\ queue = [conflicts |-> <<>>, resolved |-> <<>>, adds |-> 0]
  /\ observer = [callbacks |-> <<>>, event_log |-> <<>>, invoked |-> <<>>]

\* entities a caller can pass: a fresh Entity(...) (created_at = updated_at =
\* now) or, for an id that is stored, a copy() of the entity read, with the
\* status, data and version the caller chooses
EntityInputs(ents, now) ==
  { Entity(i, p[1], p[2], v,
           IF ents[i] = None THEN now ELSE fromisoformat(ents[i].created_at),
           now) :
      i \in Ids, p \in Payloads, v \in 1..MaxInputVersion }

\* the entities passed to the SyncableRepository of a site: those whose
\* status is one of ALL_VALID_STATUSES
SyncInputs(s) ==
  { e \in EntityInputs(entities[s], clock[s]) :
      e.status \in ALL_VALID_STATUSES }

\* the entities passed to its create: built with the default version = 1
NewEntities(s) == { e \in SyncInputs(s) : e.version = 1 }

Commit(s, out) ==
  /\ entities' = [entities EXCEPT ![s] = out.entities]
  /\ versions' = [versions EXCEPT ![s] = out.versions]
  /\ clock' = IF out.versions # versions[s]
                THEN [clock EXCEPT ![s] = @ + 1]
                ELSE clock

\* successful mutations so far on the shared backing file
Mutable == Len(versions[DbSite]) < MaxOps

Result(op, id, out) ==
  [op |-> op, id |-> id, result |-> out.result, value |-> out.value]

\* ---------------------------------------- connections on one backing file
Create(e) ==
  /\ Mutable
  /\ LET out == create(entities[DbSite], versions[DbSite], e, clock[DbSite])
     IN  /\ Commit(DbSite, out)
         /\ ret' = Result("create", e.id, out)
  /\ UNCHANGED <<dsel, trackerVars, sync, hist>>
  /\ UNCHANGED auxVars

Read(id) ==
  /\ ret' = [op |-> "read", id |-> id, result |-> "ok",
             value |-> read(entities[DbSite], id)]
  /\ UNCHANGED <<storeVars, clock, dsel, trackerVars, sync, hist>>
  /\ UNCHANGED auxVars

Update(e) ==
  /\ Mutable
  /\ LET out == update(entities[DbSite], versions[DbSite], e, clock[DbSite])
     IN  /\ Commit(DbSite, out)
         /\ ret' = Result("update", e.id, out)
  /\ UNCHANGED <<dsel, trackerVars, sync, hist>>
  /\ UNCHANGED auxVars

\* delete, lines 208-214: the SELECT, outside any write transaction
DeleteSelect(w, id) ==
  /\ Mutable
  /\ dsel[w] = None
  /\ IF entities[DbSite][id] = None
       THEN /\ ret' = [op |-> "delete", id |-> id, result |-> "ok",
                       value |-> Scalar(FALSE)]
            /\ UNCHANGED dsel
       ELSE /\ dsel' = [dsel EXCEPT ![w] = entities[DbSite][id]]
            /\ UNCHANGED ret
  /\ UNCHANGED <<storeVars, clock, trackerVars, sync, hist>>
  /\ UNCHANGED auxVars

\* delete, lines 216-251: the write transaction
DeleteWrite(w) ==
  /\ dsel[w] # None
  /\ LET out == delete_row(entities[DbSite], versions[DbSite], dsel[w],
                              clock[DbSite])
     IN  /\ Commit(DbSite, out)
         /\ ret' = Result("delete", dsel[w].id, out)
  /\ dsel' = [dsel EXCEPT ![w] = None]
  /\ UNCHANGED <<trackerVars, sync, hist>>
  /\ UNCHANGED auxVars

\* ------------------------------------------------------- ChangeTracker
\* The ledger of a site is the sequence of the changes it has recorded, its
\* own and those received; a change keeps the site that authored it and the
\* version it got there.  The position in the ledger is the local version.

Change(eid, kind, site, value, v) ==
  [entity_id |-> eid, change_type |-> kind, site_id |-> site,
   table_name |-> "entities", value |-> value, version |-> v]

\* ChangeTracker.get_current_version
get_current_version_of_last(ledger) ==
  IF ledger = <<>> THEN 0 ELSE ledger[Len(ledger)].version
get_current_version(ledger) == Len(ledger)

\* ChangeTracker.record_change
record_change_twice(ledger, site, eid, kind, value) ==
  LET c == Change(eid, kind, site, value, get_current_version(ledger) + 1)
  IN  Append(Append(ledger, c), [c EXCEPT !.version = @ + 1])
record_change(ledger, site, eid, kind, value) ==
  Append(ledger, Change(eid, kind, site, value, get_current_version(ledger) + 1))

\* ChangeTracker.get_changes_since
tracker_get_changes_since(ledger, v) == SubSeq(ledger, v + 1, Len(ledger))

\* ChangeTracker.apply_remote_change: TRUE iff the change is newly recorded
IsRecorded(ledger, c) ==
  \E i \in 1..Len(ledger) :
     ledger[i].site_id = c.site_id /\ ledger[i].version = c.version

apply_remote_change(ledger, c) ==
  IF IsRecorded(ledger, c)
    THEN [ledger |-> ledger, recorded |-> FALSE]
    ELSE [ledger |-> Append(ledger, c), recorded |-> TRUE]

\* ------------------------------------------------- SyncableRepository ops
\* changes authored so far by the clients of the two sites
Authored(s) == Len(SelectSeq(changes[s], LAMBDA c : c.site_id = s))
SyncMutable == Authored("A") + Authored("B") < MaxOps

\* SyncableRepository.create: the repository call, then record_change
create_and_record(s, e) ==
  /\ SyncMutable
  /\ LET out == create(entities[s], versions[s], e, clock[s])
     IN  /\ Commit(s, out)
         /\ ret' = Result("create", e.id, out)
         /\ changes' =
              IF out.result = "ok"
                THEN [changes EXCEPT ![s] =
                        record_change(@, s, out.value.id, "INSERT",
                                     to_dict(out.value))]
                ELSE changes
         /\ hist' = IF out.result = "ok" THEN [hist EXCEPT !.quiet = 0]
                                         ELSE hist
  /\ UNCHANGED <<dsel, siteVersion, sync>>
  /\ UNCHANGED auxVars

\* SyncableRepository.update: the repository call, then record_change
update_and_record(s, e) ==
  /\ SyncMutable
  /\ LET out == update(entities[s], versions[s], e, clock[s])
     IN  /\ Commit(s, out)
         /\ ret' = Result("update", e.id, out)
         /\ changes' =
              IF out.result = "ok"
                THEN [changes EXCEPT ![s] =
                        record_change(@, s, out.value.id, "UPDATE",
                                     to_dict(out.value))]
                ELSE changes
         /\ hist' = IF out.result = "ok" THEN [hist EXCEPT !.quiet = 0]
                                         ELSE hist
  /\ UNCHANGED <<dsel, siteVersion, sync>>
  /\ UNCHANGED auxVars

\* SyncableRepository.delete: the repository call, then record_change
delete_and_record(s, id) ==
  /\ SyncMutable
  /\ LET entity == read(entities[s], id)
         out == IF entity = None
                  THEN Outcome(entities[s], versions[s], "ok", Scalar(FALSE))
                  ELSE delete(entities[s], versions[s], id, clock[s])
         deleted == out.result = "ok" /\ out.value = Scalar(TRUE)
     IN  /\ Commit(s, out)
         /\ ret' = Result("delete", id, out)
         /\ changes' =
              IF deleted
                THEN [changes EXCEPT ![s] =
                        record_change(@, s, id, "DELETE", to_dict(entity))]
                ELSE changes
         /\ hist' = IF deleted THEN [hist EXCEPT !.quiet = 0] ELSE hist
  /\ UNCHANGED <<dsel, siteVersion, sync>>
  /\ UNCHANGED auxVars

\* the calls of the process that also calls sync_with: none of them while
\* its sync_with is running
SyncableCreate(s, e) == sync.pc = "idle" /\ create_and_record(s, e)

SyncableUpdate(s, e) == sync.pc = "idle" /\ update_and_record(s, e)

SyncableDelete(s, id) == sync.pc = "idle" /\ delete_and_record(s, id)

\* _apply_entity_change, line 342: entity.copy(version=existing.version)
with_remote_version(entity, existing, now) ==
  copy(entity, entity.version, now)
with_local_version(entity, existing, now) ==
  copy(entity, existing.version, now)

\* _apply_entity_change, line 339: entity.version > existing.version
remote_not_older(entity, existing) == entity.version >= existing.version
remote_newer(entity, existing) == entity.version > existing.version

\* _apply_entity_change, line 348: self.repo.delete(data.get("id", ""))
forward_delete_same_version(ents, vers, data, now) ==
  IF ents[data.id] # None /\ ents[data.id].version # data.version
    THEN Outcome(ents, vers, "ok", Scalar(FALSE))
    ELSE delete(ents, vers, data.id, now)
forward_delete(ents, vers, data, now) == delete(ents, vers, data.id, now)

\* SyncableRepository._apply_entity_change: the tables of the store after the
\* change is projected.  An exception of create or update is swallowed by the
\* `except Exception: pass` (swallowed); one of delete escapes (result).
_apply_entity_change(ents, vers, change, now) ==
  LET entity == from_dict(change.value)
      existing == read(ents, entity.id)
      returned(out, swallowed) ==
        [entities |-> out.entities, versions |-> out.versions,
         result |-> out.result, value |-> None, swallowed |-> swallowed]
      keep == returned(Outcome(ents, vers, "ok", None), FALSE)
      try(out) == returned([out EXCEPT !.result = "ok"], out.result # "ok")
  IN  IF change.table_name # "entities" \/ change.value = None THEN keep
      ELSE IF change.change_type = "INSERT" THEN
        IF existing = None THEN try(create(ents, vers, entity, now))
                           ELSE keep
      ELSE IF change.change_type = "UPDATE" THEN
        IF existing # None /\ remote_newer(entity, existing)
          THEN try(update(ents, vers,
                          with_local_version(entity, existing, now), now))
          ELSE keep
      ELSE returned(forward_delete(ents, vers, change.value, now), FALSE)

\* --------------------------------------------------------------- sync_with
Peer(s) == CHOOSE r \in Sites : r # s

\* the changes of the ledger after the watermark that the peer did not author
outgoing_unfiltered(ledger, watermark, peer) ==
  tracker_get_changes_since(ledger, watermark)
Outgoing(ledger, watermark, peer) ==
  SelectSeq(tracker_get_changes_since(ledger, watermark),
            LAMBDA c : c.site_id # peer)

\* sync_with, lines 231-244: read both batches and both current versions
SyncRead(l) ==
  /\ sync.pc = "idle"
  /\ LET r == Peer(l)
         to_send == Outgoing(changes[l], siteVersion[l][r], r)
     IN  sync' = [SyncIdle EXCEPT
                    !.pc = "receive", !.local = l, !.remote = r,
                    !.last_remote_version = siteVersion[l][r],
                    !.last_local_version_at_remote = siteVersion[r][l],
                    !.changes_to_send = to_send,
                    !.sent = Len(to_send),
                    !.local_version = get_current_version(changes[l]),
                    !.remote_changes =
                       Outgoing(changes[r], siteVersion[r][l], l),
                    !.remote_version = get_current_version(changes[r])]
  /\ ret' = [op |-> "sync_with", id |-> l, result |-> "running",
             value |-> None]
  /\ UNCHANGED <<storeVars, clock, dsel, trackerVars>>
  /\ UNCHANGED auxVars

\* one of at most MaxSyncs calls of sync_with
SyncBegin(l) ==
  /\ hist.syncs < MaxSyncs
  /\ hist' = [hist EXCEPT !.syncs = @ + 1, !.quiet = @ + 1]
  /\ SyncRead(l)

\* _apply_entity_change, lines 330, 343, 348: the projection calls
\* self.repo (the EntityRepository), not the recording create, update and
\* delete of the SyncableRepository; the ledger of site s after it
projected_ledger_recording(ledger, s, change, out) ==
  IF out.versions # versions[s]
    THEN record_change(ledger, s, change.entity_id, change.change_type,
                       change.value)
    ELSE ledger
projected_ledger(ledger, s, change, out) == ledger

\* the body of the try of both loops on site s: apply_remote_change, then
\* _apply_entity_change when the change is newly recorded; an exception
\* that escapes _apply_entity_change leaves the ledger entry behind.
\* failed: the projection raised, whether or not the exception escaped
Applied(s, change) ==
  LET tracked == apply_remote_change(changes[s], change)
      out == IF tracked.recorded
               THEN _apply_entity_change(entities[s], versions[s], change,
                                      clock[s])
               ELSE [entities |-> entities[s], versions |-> versions[s],
                     result |-> "ok", value |-> None, swallowed |-> FALSE]
  IN  [ledger |-> projected_ledger(tracked.ledger, s, change, out), out |-> out,
       raised |-> out.result # "ok",
       counted |-> tracked.recorded /\ out.result = "ok",
       failed |-> out.result # "ok" \/ out.swallowed]

\* the record of a projection that raised at site s
Failure(s, change) ==
  [site |-> s, site_id |-> change.site_id, version |-> change.version]

\* sync_with, lines 246-255: one iteration of the loop over remote_changes
SyncReceive ==
  /\ sync.pc = "receive"
  /\ IF sync.remote_changes = <<>>
       THEN /\ sync' = [sync EXCEPT !.pc = "send"]
            /\ UNCHANGED <<storeVars, clock, changes, hist>>
       ELSE LET change == Head(sync.remote_changes)
                a == Applied(sync.local, change)
            IN  /\ changes' = [changes EXCEPT ![sync.local] = a.ledger]
                /\ Commit(sync.local, a.out)
                /\ sync' = [sync EXCEPT
                              !.remote_changes = Tail(@),
                              !.local_applied = IF a.counted THEN @ + 1 ELSE @,
                              !.errors =
                                 IF a.raised
                                   THEN Append(@, <<"local", change.entity_id>>)
                                   ELSE @]
                /\ hist' = IF a.failed
                             THEN [hist EXCEPT !.failed =
                                     @ \cup {Failure(sync.local, change)}]
                             ELSE hist
  /\ UNCHANGED <<ret, dsel, siteVersion>>
  /\ UNCHANGED auxVars

\* sync_with, lines 257-266: one iteration of the loop over changes_to_send
SyncSend ==
  /\ sync.pc = "send"
  /\ IF sync.changes_to_send = <<>>
       THEN /\ sync' = [sync EXCEPT !.pc = "mark_local"]
            /\ UNCHANGED <<storeVars, clock, changes, hist>>
       ELSE LET change == Head(sync.changes_to_send)
                a == Applied(sync.remote, change)
            IN  /\ changes' = [changes EXCEPT ![sync.remote] = a.ledger]
                /\ Commit(sync.remote, a.out)
                /\ sync' = [sync EXCEPT
                              !.changes_to_send = Tail(@),
                              !.remote_applied = IF a.counted THEN @ + 1 ELSE @,
                              !.errors =
                                 IF a.raised
                                   THEN Append(@, <<"remote", change.entity_id>>)
                                   ELSE @]
                /\ hist' = IF a.failed
                             THEN [hist EXCEPT !.failed =
                                     @ \cup {Failure(sync.remote, change)}]
                             ELSE hist
  /\ UNCHANGED <<ret, dsel, siteVersion>>
  /\ UNCHANGED auxVars

\* sync_with, line 270
SyncMarkLocal ==
  /\ sync.pc = "mark_local"
  /\ siteVersion' = [siteVersion EXCEPT
                       ![sync.local][sync.remote] = sync.local_version]
  /\ sync' = [sync EXCEPT !.pc = "mark_remote"]
  /\ UNCHANGED <<storeVars, clock, ret, dsel, changes, hist>>
  /\ UNCHANGED auxVars

\* sync_with, lines 271-278
SyncMarkRemote ==
  /\ sync.pc = "mark_remote"
  /\ siteVersion' = [siteVersion EXCEPT
                       ![sync.remote][sync.local] = sync.remote_version]
  /\ ret' = [op |-> "sync_with", id |-> sync.local, result |-> "ok",
             value |-> [changes_sent |-> sync.sent,
                        changes_received |-> sync.local_applied,
                        conflicts_resolved |-> 0,
                        errors |-> sync.errors]]
  /\ sync' = SyncIdle
  /\ UNCHANGED <<storeVars, clock, dsel, changes, hist>>
  /\ UNCHANGED auxVars

Next ==
  \/ \E e \in EntityInputs(entities[DbSite], clock[DbSite]) : Create(e)
  \/ \E i \in Ids : Read(i)
  \/ \E e \in EntityInputs(entities[DbSite], clock[DbSite]) : Update(e)
  \/ \E w \in Writers, i \in Ids : DeleteSelect(w, i)
  \/ \E w \in Writers : DeleteWrite(w)

Spec == Init /\ [][Next]_vars

\* _connection, lines 52-56: the process of a connection dies, or its block
\* is left by an exception, between the SELECT of delete and its writes; the
\* open transaction is rolled back and the connection closed
Interrupt(w) ==
  /\ dsel[w] # None
  /\ dsel' = [dsel EXCEPT ![w] = None]
  /\ ret' = [op |-> "delete", id |-> dsel[w].id, result |-> "interrupted",
             value |-> None]
  /\ UNCHANGED <<storeVars, clock, trackerVars, sync, hist>>
  /\ UNCHANGED auxVars

NextInterrupted ==
  \/ \E e \in EntityInputs(entities[DbSite], clock[DbSite]) : Create(e)
  \/ \E e \in EntityInputs(entities[DbSite], clock[DbSite]) : Update(e)
  \/ \E w \in Writers, i \in Ids : DeleteSelect(w, i)
  \/ \E w \in Writers : DeleteWrite(w)
  \/ \E w \in Writers : Interrupt(w)

SpecInterrupted == Init /\ [][NextInterrupted]_vars

NextSync ==
  \/ \E s \in Sites : \E e \in NewEntities(s) : SyncableCreate(s, e)
  \/ \E s \in Sites : \E e \in SyncInputs(s) : SyncableUpdate(s, e)
  \/ \E s \in Sites, i \in Ids : SyncableDelete(s, i)
  \/ \E l \in Sites : SyncBegin(l)
  \/ SyncReceive
  \/ SyncSend
  \/ SyncMarkLocal
  \/ SyncMarkRemote

SpecSync == Init /\ [][NextSync]_vars

\* ------------------------------------------ sync_with beside other processes
\* Another process has the backing file of the local site open and calls
\* create, update or delete of its SyncableRepository while sync_with runs in
\* the first one.  sync_with reads the batch to send (line 236) and the current
\* version (line 238) with two calls of the tracker, so the other process can
\* commit between the two.

\* sync_with, lines 235-237: the watermark and the batch to send
SyncReadToSend(l) ==
  /\ sync.pc = "idle"
  /\ hist.syncs < MaxConcurrentSyncs
  /\ hist' = [hist EXCEPT !.syncs = @ + 1, !.quiet = @ + 1]
  /\ LET r == Peer(l)
         to_send == Outgoing(changes[l], siteVersion[l][r], r)
     IN  sync' = [SyncIdle EXCEPT
                    !.pc = "read_version", !.local = l, !.remote = r,
                    !.last_remote_version = siteVersion[l][r],
                    !.changes_to_send = to_send,
                    !.sent = Len(to_send)]
  /\ ret' = [op |-> "sync_with", id |-> l, result |-> "running",
             value |-> None]
  /\ UNCHANGED <<storeVars, clock, dsel, trackerVars>>
  /\ UNCHANGED auxVars

\* sync_with, lines 238-244: the current version, then the reads at the remote
SyncReadVersions ==
  /\ sync.pc = "read_version"
  /\ LET l == sync.local
         r == sync.remote
     IN  sync' = [sync EXCEPT
                    !.pc = "receive",
                    !.local_version = get_current_version(changes[l]),
                    !.last_local_version_at_remote = siteVersion[r][l],
                    !.remote_changes =
                       Outgoing(changes[r], siteVersion[r][l], l),
                    !.remote_version = get_current_version(changes[r])]
  /\ UNCHANGED <<storeVars, clock, ret, dsel, trackerVars, hist>>
  /\ UNCHANGED auxVars

\* the other process of the local site, while sync_with is running
ConcurrentCreate ==
  /\ sync.pc # "idle"
  /\ \E e \in NewEntities(sync.local) : create_and_record(sync.local, e)

ConcurrentUpdate ==
  /\ sync.pc # "idle"
  /\ \E e \in SyncInputs(sync.local) : update_and_record(sync.local, e)

ConcurrentDelete ==
  /\ sync.pc # "idle"
  /\ \E i \in Ids : delete_and_record(sync.local, i)

NextSyncConcurrent ==
  \/ \E s \in Sites : \E e \in NewEntities(s) : SyncableCreate(s, e)
  \/ \E s \in Sites : \E e \in SyncInputs(s) : SyncableUpdate(s, e)
  \/ \E s \in Sites, i \in Ids : SyncableDelete(s, i)
  \/ \E l \in Sites : SyncReadToSend(l)
  \/ SyncReadVersions
  \/ ConcurrentCreate
  \/ ConcurrentUpdate
  \/ ConcurrentDelete
  \/ SyncReceive
  \/ SyncSend
  \/ SyncMarkLocal
  \/ SyncMarkRemote

SpecSyncConcurrent == Init /\ [][NextSyncConcurrent]_vars

\* ---------------------------------------------------- apply_remote_changes
\* DatabaseMerger.apply_remote_changes: every change of the batch is handed
\* to apply_remote_change of the tracker
RECURSIVE merger_apply_remote_changes(_, _)
merger_apply_remote_changes(ledger, batch) ==
  IF batch = <<>> THEN ledger
  ELSE merger_apply_remote_changes(
         apply_remote_change(ledger, Head(batch)).ledger, Tail(batch))

\* apply_remote_changes, lines 304-305: _apply_entity_change for every change
\* of the batch, recorded before or not; an exception that escapes ends the
\* loop
RECURSIVE project_all(_, _, _, _)
project_all(ents, vers, batch, now) ==
  IF batch = <<>> THEN Outcome(ents, vers, "ok", None)
  ELSE LET out == _apply_entity_change(ents, vers, Head(batch), now)
       IN  IF out.result # "ok"
             THEN Outcome(out.entities, out.versions, out.result, None)
             ELSE project_all(out.entities, out.versions, Tail(batch),
                              IF out.versions # vers THEN now + 1 ELSE now)

\* SyncableRepository.apply_remote_changes: the ledger and the tables after
\* the call
apply_remote_changes(ents, vers, ledger, batch, now) ==
  LET out == project_all(ents, vers, batch, now)
  IN  [ledger |-> merger_apply_remote_changes(ledger, batch),
       entities |-> out.entities, versions |-> out.versions,
       result |-> out.result, value |-> None]

\* get_pending_changes(since_version) of the peer: the batches handed over
Batches(s) ==
  { tracker_get_changes_since(changes[Peer(s)], v) :
      v \in 0..get_current_version(changes[Peer(s)]) }

\* site s applies a batch that its peer handed over
ApplyRemoteChanges(s, batch) ==
  /\ hist.applies < MaxApplies
  /\ sync.pc = "idle"
  /\ LET out == apply_remote_changes(entities[s], versions[s], changes[s],
                                     batch, clock[s])
     IN  /\ entities' = [entities EXCEPT ![s] = out.entities]
         /\ versions' = [versions EXCEPT ![s] = out.versions]
         /\ clock' = [clock EXCEPT ![s] =
                        @ + Len(out.versions) - Len(versions[s])]
         /\ changes' = [changes EXCEPT ![s] = out.ledger]
         /\ ret' = [op |-> "apply_remote_changes", id |-> s,
                    result |-> out.result, value |-> None]
  /\ hist' = [hist EXCEPT !.applies = @ + 1]
  /\ UNCHANGED <<dsel, siteVersion, sync>>
  /\ UNCHANGED auxVars

NextApply ==
  \/ \E s \in Sites : \E e \in NewEntities(s) : SyncableCreate(s, e)
  \/ \E s \in Sites : \E e \in SyncInputs(s) : SyncableUpdate(s, e)
  \/ \E s \in Sites, i \in Ids : SyncableDelete(s, i)
  \/ \E s \in Sites : \E b \in Batches(s) : ApplyRemoteChanges(s, b)

SpecApply == Init /\ [][NextApply]_vars

\* ----------------------------------- queries and failing watermark accesses
\* EntityRepository.list(entity_type): the rows of the type (the ORDER BY,
\* LIMIT and OFFSET are left out: the result is kept as a set)
list(ents, entity_type) ==
  { _row_to_entity(ents[id]) :
      id \in { i \in Ids : ents[i] # None /\ ents[i].type = entity_type } }

\* SyncableRepository.read
SyncableRead(s, id) ==
  /\ sync.pc = "idle"
  /\ ret' = [op |-> "read", id |-> id, result |-> "ok",
             value |-> read(entities[s], id)]
  /\ UNCHANGED <<storeVars, clock, dsel, trackerVars, sync, hist, auxVars>>

\* SyncableRepository.list
SyncableList(s, entity_type) ==
  /\ sync.pc = "idle"
  /\ ret' = [op |-> "list", id |-> entity_type, result |-> "ok",
             value |-> list(entities[s], entity_type)]
  /\ UNCHANGED <<storeVars, clock, dsel, trackerVars, sync, hist, auxVars>>

\* the outcome of a sync_with call that an exception of a tracker ends
TrackerError(l) ==
  [op |-> "sync_with", id |-> l, result |-> "tracker_error", value |-> None]

\* sync_with, lines 235 and 241: get_site_version raises
SyncReadFails(l) ==
  /\ hist.syncs < MaxSyncs
  /\ sync.pc = "idle"
  /\ hist' = [hist EXCEPT !.syncs = @ + 1]
  /\ ret' = TrackerError(l)
  /\ UNCHANGED <<storeVars, clock, dsel, trackerVars, sync, auxVars>>

\* sync_with, line 270: update_site_version of the local tracker raises
SyncMarkLocalFails ==
  /\ sync.pc = "mark_local"
  /\ ret' = TrackerError(sync.local)
  /\ sync' = SyncIdle
  /\ UNCHANGED <<storeVars, clock, dsel, trackerVars, hist, auxVars>>

\* sync_with, line 271: update_site_version of the remote tracker raises
SyncMarkRemoteFails ==
  /\ sync.pc = "mark_remote"
  /\ ret' = TrackerError(sync.local)
  /\ sync' = SyncIdle
  /\ UNCHANGED <<storeVars, clock, dsel, trackerVars, hist, auxVars>>

\* SpecSync with the queries of SyncableRepository
NextSyncQueries ==
  \/ \E s \in Sites : \E e \in NewEntities(s) : SyncableCreate(s, e)
  \/ \E s \in Sites : \E e \in SyncInputs(s) : SyncableUpdate(s, e)
  \/ \E s \in Sites, i \in Ids : SyncableDelete(s, i)
  \/ \E s \in Sites, i \in Ids : SyncableRead(s, i)
  \/ \E s \in Sites, t \in {IdType[i] : i \in Ids} : SyncableList(s, t)
  \/ \E l \in Sites : SyncBegin(l)
  \/ SyncReceive
  \/ SyncSend
  \/ SyncMarkLocal
  \/ SyncMarkRemote

SpecSyncQueries == Init /\ [][NextSyncQueries]_vars

\* SpecSync with accesses to the watermarks that may fail
NextSyncFaults ==
  \/ \E s \in Sites : \E e \in NewEntities(s) : SyncableCreate(s, e)
  \/ \E s \in Sites : \E e \in SyncInputs(s) : SyncableUpdate(s, e)
  \/ \E s \in Sites, i \in Ids : SyncableDelete(s, i)
  \/ \E l \in Sites : SyncBegin(l)
  \/ \E l \in Sites : SyncReadFails(l)
  \/ SyncReceive
  \/ SyncSend
  \/ SyncMarkLocal
  \/ SyncMarkLocalFails
  \/ SyncMarkRemote
  \/ SyncMarkRemoteFails

SpecSyncFaults == Init /\ [][NextSyncFaults]_vars

\* ================================================================ conflict
\* values of a payload handed to a resolver: a JSON string, or None (null)
JsonStr(x) == [string |-> x]
\* a timestamp field holds a str or, from detect_conflict, a datetime
Str(x) == [str |-> x]
Datetime(t) == [datetime |-> t]
IsStr(v) == DOMAIN v = {"str"}

\* ISO-8601 strings: wall clock hour t, naive or with a UTC offset suffix
Suffixes == {"Z", "+00:00", "+01:00"}
Timestamps ==
  {<<"iso", t>> : t \in 1..MaxHour} \cup
  {<<"iso", t, x>> : t \in 1..MaxHour, x \in Suffixes}

\* str.replace('Z', '+00:00')
replace_Z(s) ==
  IF Len(s) = 3 /\ s[3] = "Z" THEN <<s[1], s[2], "+00:00">> ELSE s

\* datetime.fromisoformat of a string with or without offset (offsets in
\* hours; fromisoformat does not read the suffix "Z")
datetime_fromisoformat(s) ==
  [wall |-> s[2], aware |-> Len(s) = 3,
   utcoffset |-> IF Len(s) = 3 /\ s[3] = "+01:00" THEN 1 ELSE 0]

\* datetime.__ge__: naive against aware raises TypeError
datetime_ge(a, b) ==
  IF a.aware # b.aware THEN "TypeError"
  ELSE IF a.wall - a.utcoffset >= b.wall - b.utcoffset THEN "true"
  ELSE "false"

\* Entity.to_dict
as_dict(e) ==
  [id |-> e.id, type |-> e.type, status |-> e.status, data |-> e.data,
   version |-> e.version, created_at |-> isoformat(e.created_at),
   updated_at |-> isoformat(e.updated_at)]

\* dataclass Conflict
Conflict(id, type, lv, rv, ld, rd, lt, rt, ls, rs) ==
  [entity_id |-> id, entity_type |-> type,
   local_version |-> lv, remote_version |-> rv,
   local_data |-> ld, remote_data |-> rd,
   local_timestamp |-> lt, remote_timestamp |-> rt,
   local_site_id |-> ls, remote_site_id |-> rs]

\* dataclass ConflictResult (the message, a log text, is left out)
ConflictResult(c, resolution, data) ==
  [conflict |-> c, resolution |-> resolution, resolved_data |-> data]

\* a resolver returns a value or raises an exception
Returned(v) == [result |-> "ok", value |-> v]
Raised(exception) == [result |-> exception, value |-> None]

\* detect_conflict
detect_conflict(entity_id, local_entity, remote_data, local_site_id, remote_site_id, remote_timestamp) ==
  LET local_data == as_dict(local_entity)
      remote_version == IF "version" \in DOMAIN remote_data
                          THEN remote_data.version ELSE 0
  IN  IF remote_version <= local_entity.version THEN None
      ELSE IF local_data = remote_data THEN None
      ELSE Conflict(entity_id, local_entity.type, local_entity.version,
                    remote_version, local_data, remote_data,
                    Datetime(local_entity.updated_at), remote_timestamp,
                    local_site_id, remote_site_id)

\* LastWriteWinsResolver.resolve: replace is the method of str; on a
\* datetime the call replace('Z', '+00:00') raises TypeError
LastWriteWins_resolve(conflict) ==
  IF ~IsStr(conflict.local_timestamp) \/ ~IsStr(conflict.remote_timestamp)
    THEN Raised("TypeError")
  ELSE
    LET local_time ==
          datetime_fromisoformat(replace_Z(conflict.local_timestamp.str))
        remote_time ==
          datetime_fromisoformat(replace_Z(conflict.remote_timestamp.str))
        ge == datetime_ge(local_time, remote_time)
    IN  IF ge = "TypeError" THEN Raised("TypeError")
        ELSE IF ge = "true"
          THEN Returned(ConflictResult(conflict, "local_wins",
                                       conflict.local_data))
          ELSE Returned(ConflictResult(conflict, "remote_wins",
                                       conflict.remote_data))

\* HigherVersionWinsResolver.resolve
HigherVersionWins_strict(conflict) ==
  IF conflict.local_version > conflict.remote_version
    THEN Returned(ConflictResult(conflict, "local_wins",
                                 conflict.local_data))
    ELSE Returned(ConflictResult(conflict, "remote_wins",
                                 conflict.remote_data))
HigherVersionWins_resolve(conflict) ==
  IF conflict.local_version >= conflict.remote_version
    THEN Returned(ConflictResult(conflict, "local_wins",
                                 conflict.local_data))
    ELSE Returned(ConflictResult(conflict, "remote_wins",
                                 conflict.remote_data))

\* DeferResolver.resolve: resolved_data=None
Defer_with_local(conflict) ==
  Returned(ConflictResult(conflict, "deferred", conflict.local_data))
Defer_resolve(conflict) ==
  Returned(ConflictResult(conflict, "deferred", None))

\* dict.get(key): the value of the key, None when the key is absent
dict_get(d, key) == IF key \in DOMAIN d THEN d[key] ELSE None

\* MergeFieldsResolver.resolve, line 161
local_keys(conflict) == DOMAIN conflict.local_data
all_keys(conflict) ==
  DOMAIN conflict.local_data \cup DOMAIN conflict.remote_data

\* MergeFieldsResolver.resolve: the body of the loop for one key
merged_value(conflict, default_priority, field_priorities, key) ==
  LET local_val == dict_get(conflict.local_data, key)
      remote_val == dict_get(conflict.remote_data, key)
      priority == IF key \in DOMAIN field_priorities
                    THEN field_priorities[key] ELSE default_priority
  IN  IF local_val = remote_val THEN local_val
      ELSE IF local_val = None THEN remote_val
      ELSE IF remote_val = None THEN local_val
      ELSE IF priority = "local" THEN local_val
      ELSE remote_val

\* MergeFieldsResolver(default_priority, field_priorities).resolve
MergeFields_resolve(conflict, default_priority, field_priorities) ==
  ConflictResult(conflict, "merged",
                 [key \in all_keys(conflict) |->
                    merged_value(conflict, default_priority,
                                 field_priorities, key)])

\* ------------------------------------------------ callers of the resolvers
\* the entities and remote payloads handed to detect_conflict
LocalEntities ==
  { Entity("feature-x", p[1], p[2], v, 1, 1) :
      p \in {<<"planned", NoData>>, <<"complete", NameData>>},
      v \in 1..MaxInputVersion }
without_version(d) == [k \in DOMAIN d \ {"version"} |-> d[k]]
RemotePayloads ==
  LET full == { as_dict(Entity("feature-x", p[1], p[2], v, 1, 1)) :
                  p \in {<<"planned", NoData>>, <<"complete", NameData>>},
                  v \in 0..MaxRemoteVersion }
  IN  full \cup { without_version(d) : d \in full }

\* Conflict(...) built by a caller, with str timestamps
TimedConflicts ==
  { Conflict("feature-x", "feature", lv, rv,
             [status |-> JsonStr("in_progress")],
             [status |-> JsonStr("blocked")], Str(lt), Str(rt), "A", "B") :
      lv \in 1..MaxInputVersion, rv \in 1..MaxInputVersion,
      lt \in Timestamps, rt \in Timestamps }

\* the payloads handed to MergeFieldsResolver: any of the keys, each with a
\* string or null
MergeKeys == {"name", "status"}
MergeValues == {JsonStr("A"), JsonStr("B"), None}
MergePayloads ==
  UNION { [ks -> MergeValues] : ks \in SUBSET MergeKeys }
MergeConflicts ==
  { Conflict("feature-x", "feature", 1, 2, ld, rd,
             Str(<<"iso", 1, "Z">>), Str(<<"iso", 2, "Z">>), "A", "B") :
      ld \in MergePayloads, rd \in MergePayloads }
Priorities == {"local", "remote"}
FieldPriorities ==
  { [k \in {} |-> "local"], [status |-> "local"] }

\* the Conflict the latest detect_conflict returned, if it returned one
Detected ==
  IF ret.op = "detect_conflict" /\ ret.value # None THEN {ret.value} ELSE {}

otherVars == <<storeVars, clock, dsel, trackerVars, sync, hist, auxVars>>

DetectConflict(local_entity, remote_data, remote_timestamp) ==
  /\ ret' = [op |-> "detect_conflict", id |-> local_entity.id,
             result |-> "ok",
             value |-> detect_conflict(local_entity.id, local_entity,
                                       remote_data, "A", "B",
                                       Str(remote_timestamp)),
             args |-> [local_entity |-> local_entity,
                       remote_data |-> remote_data]]
  /\ UNCHANGED otherVars

LastWriteWins(conflict) ==
  /\ ret' = [op |-> "LastWriteWinsResolver.resolve",
             id |-> conflict.entity_id,
             result |-> LastWriteWins_resolve(conflict).result,
             value |-> LastWriteWins_resolve(conflict).value,
             args |-> [conflict |-> conflict]]
  /\ UNCHANGED otherVars

MergeFields(conflict, default_priority, field_priorities) ==
  /\ ret' = [op |-> "MergeFieldsResolver.resolve",
             id |-> conflict.entity_id, result |-> "ok",
             value |-> MergeFields_resolve(conflict, default_priority,
                                           field_priorities),
             args |-> [conflict |-> conflict,
                       default_priority |-> default_priority,
                       field_priorities |-> field_priorities]]
  /\ UNCHANGED otherVars

HigherVersionWins(conflict) ==
  /\ ret' = [op |-> "HigherVersionWinsResolver.resolve",
             id |-> conflict.entity_id,
             result |-> HigherVersionWins_resolve(conflict).result,
             value |-> HigherVersionWins_resolve(conflict).value,
             args |-> [conflict |-> conflict]]
  /\ UNCHANGED otherVars

Defer(conflict) ==
  /\ ret' = [op |-> "DeferResolver.resolve",
             id |-> conflict.entity_id,
             result |-> Defer_resolve(conflict).result,
             value |-> Defer_resolve(conflict).value,
             args |-> [conflict |-> conflict]]
  /\ UNCHANGED otherVars

NextConflict ==
  \/ \E e \in LocalEntities, d \in RemotePayloads, t \in Timestamps :
        DetectConflict(e, d, t)
  \/ \E c \in TimedConflicts \cup Detected : LastWriteWins(c)
  \/ \E c \in TimedConflicts \cup Detected : HigherVersionWins(c)
  \/ \E c \in TimedConflicts \cup Detected : Defer(c)
  \/ \E c \in MergeConflicts, p \in Priorities, f \in FieldPriorities :
        MergeFields(c, p, f)

SpecConflict == Init /\ [][NextConflict]_vars

\* =========================================================== ConflictQueue
\* list.remove(x): the items without its first element equal to x
remove_all(items, x) == SelectSeq(items, LAMBDA y : y # x)
remove(items, x) ==
  LET i == CHOOSE i \in 1..Len(items) :
              items[i] = x /\ \A j \in 1..(i - 1) : items[j] # x
  IN  [k \in 1..(Len(items) - 1) |-> IF k < i THEN items[k] ELSE items[k + 1]]

\* x in list
contains(items, x) == \E i \in 1..Len(items) : items[i] = x

\* the Conflicts and the resolutions callers hand to the queue
QueueConflicts ==
  { Conflict("feature-x", "feature", 1, rv,
             [status |-> JsonStr("in_progress")],
             [status |-> JsonStr("blocked")],
             Str(<<"iso", 1, "Z">>), Str(<<"iso", 2, "Z">>), "A", "B") :
      rv \in 1..MaxInputVersion }
QueueResolutions == {"local_wins", "remote_wins"}

restVars == <<storeVars, clock, dsel, trackerVars, sync, hist, observer>>

\* ConflictQueue.add
QueueAdd(conflict) ==
  /\ queue.adds < MaxAdds
  /\ queue' = [queue EXCEPT !.conflicts = Append(@, conflict),
                            !.adds = @ + 1]
  /\ ret' = [op |-> "ConflictQueue.add", id |-> conflict.entity_id,
             result |-> "ok", value |-> None,
             args |-> [conflict |-> conflict]]
  /\ UNCHANGED restVars

\* ConflictQueue.resolve: list.remove raises ValueError when the conflict is
\* not pending, before anything is appended to _resolved
QueueResolve(conflict, resolution, data) ==
  /\ IF contains(queue.conflicts, conflict)
       THEN /\ queue' = [queue EXCEPT
                           !.conflicts = remove(@, conflict),
                           !.resolved =
                              Append(@, ConflictResult(conflict, resolution,
                                                       data))]
            /\ ret' = [op |-> "ConflictQueue.resolve",
                       id |-> conflict.entity_id, result |-> "ok",
                       value |-> ConflictResult(conflict, resolution, data),
                       args |-> [conflict |-> conflict]]
       ELSE /\ queue' = queue
            /\ ret' = [op |-> "ConflictQueue.resolve",
                       id |-> conflict.entity_id, result |-> "ValueError",
                       value |-> None,
                       args |-> [conflict |-> conflict]]
  /\ UNCHANGED restVars

\* ConflictQueue.clear
QueueClear ==
  /\ queue' = [conflicts |-> <<>>, resolved |-> <<>>, adds |-> 0]
  /\ ret' = [op |-> "ConflictQueue.clear", id |-> "none", result |-> "ok",
             value |-> None, args |-> None]
  /\ UNCHANGED restVars

NextQueue ==
  \/ \E c \in QueueConflicts : QueueAdd(c)
  \/ \E c \in QueueConflicts, k \in QueueResolutions :
        QueueResolve(c, k, IF k = "local_wins" THEN c.local_data
                                              ELSE c.remote_data)
  \/ QueueClear

SpecQueue == Init /\ [][NextQueue]_vars

\* ================================================ observer.py, factory.py
\* registered callbacks in one behaviour
MaxCallbacks == 2

\* EntityObserver._max_log_size
_max_log_size == 1000

\* what a registered callback does when it is called with an event: it
\* returns, or it raises an Exception
Callbacks == {"returns", "raises"}

\* a status argument that is None
NoStatus == "none"

\* EntityEvent; entity is None for a DELETED event
EntityEvent(change_type, entity, old_status) ==
  [entity_id |-> entity.id, entity_type |-> entity.type,
   change_type |-> change_type,
   entity |-> IF change_type # "deleted" THEN entity ELSE None,
   old_status |-> old_status, new_status |-> entity.status]

\* emit, lines 124-128: one callback is called; the except clause catches
\* the Exception it raises
call_uncaught(callback) ==
  IF callback = "raises" THEN "raised" ELSE "returned"
try_callback(callback) ==
  IF callback = "raises" THEN "caught" ELSE "returned"

\* emit, lines 123-128: the loop over _callbacks from position i on; the
\* positions called, and whether an exception leaves the loop
RECURSIVE notify(_, _)
notify(callbacks, i) ==
  IF i > Len(callbacks) THEN [invoked |-> <<>>, result |-> "ok"]
  ELSE IF try_callback(callbacks[i]) = "raised"
    THEN [invoked |-> <<i>>, result |-> "callback_error"]
  ELSE LET rest == notify(callbacks, i + 1)
       IN  [invoked |-> <<i>> \o rest.invoked, result |-> rest.result]

\* emit, lines 118-121: append to the log and keep its last _max_log_size
append_event(log, event) ==
  LET appended == Append(log, event)
  IN  IF Len(appended) > _max_log_size
        THEN SubSeq(appended, Len(appended) - _max_log_size + 1,
                    Len(appended))
        ELSE appended

\* EntityObserver.emit: the observer after the call and the outcome
emit(obs, change_type, entity, old_status) ==
  LET event == EntityEvent(change_type, entity, old_status)
      called == notify(obs.callbacks, 1)
  IN  [observer |-> [callbacks |-> obs.callbacks,
                     event_log |-> append_event(obs.event_log, event),
                     invoked |-> called.invoked],
       result |-> called.result,
       event |-> event]

\* the statuses of the types of the ids in use, as VALID_STATUSES of
\* schema.py lists them
TypeStatuses ==
  [feature |-> {"planned", "in_progress", "complete", "blocked", "deprecated"},
   task |-> {"open", "in_progress", "complete", "blocked"}]
DefaultStatus == [feature |-> "planned", task |-> "open"]

\* EntityFactory._slugify and f"{entity_type}-{slug}"
_slugify == [X |-> "x", Y |-> "y"]
SemanticId == [feature |-> [x |-> "feature-x"], task |-> [y |-> "task-y"]]

\* the (entity_type, title) and the status arguments callers pass; "widget"
\* is a type the schema does not have
FactoryInputs == { <<"feature", "X">>, <<"task", "Y">>, <<"widget", "X">> }
FactoryStatuses == { NoStatus, "in_progress", "open" }

factoryRest == <<dsel, trackerVars, sync, hist, queue>>

\* a factory call that returns or raises before it reaches the repository
FactoryRefuses(op, id, result) ==
  /\ ret' = [op |-> op, id |-> id, result |-> result, value |-> None]
  /\ observer' = [observer EXCEPT !.invoked = <<>>]
  /\ UNCHANGED <<storeVars, clock>>

\* the last two steps of a factory call: the repository call (out), then
\* emit when the repository call did what was asked (done)
FactoryPersists(op, id, out, done, change_type, entity, old_status) ==
  /\ Commit(DbSite, out)
  /\ IF done
       THEN LET emitted == emit(observer, change_type, entity, old_status)
            IN  /\ observer' = emitted.observer
                /\ ret' = IF emitted.result = "ok"
                            THEN Result(op, id, out)
                            ELSE [op |-> op, id |-> id,
                                  result |-> emitted.result, value |-> None]
       ELSE /\ observer' = [observer EXCEPT !.invoked = <<>>]
            /\ ret' = Result(op, id, out)

\* EntityObserver.on_change
OnChange(callback) ==
  /\ Len(observer.callbacks) < MaxCallbacks
  /\ observer' = [observer EXCEPT !.callbacks = Append(@, callback)]
  /\ UNCHANGED <<storeVars, clock, ret, factoryRest>>

\* EntityObserver.off_change
OffChange(callback) ==
  /\ observer' = IF contains(observer.callbacks, callback)
                   THEN [observer EXCEPT !.callbacks = remove(@, callback)]
                   ELSE observer
  /\ UNCHANGED <<storeVars, clock, ret, factoryRest>>

\* EntityFactory.create
FactoryCreate(entity_type, title, status) ==
  /\ Mutable
  /\ IF entity_type \notin DOMAIN TypeStatuses
       THEN FactoryRefuses("factory.create", "none", "invalid_type")
       ELSE
         LET id == SemanticId[entity_type][_slugify[title]]
             now == clock[DbSite]
             st == IF status = NoStatus THEN DefaultStatus[entity_type]
                                        ELSE status
             entity == Entity(id, st, [k \in {"name"} |-> title], 1, now, now)
             out == create(entities[DbSite], versions[DbSite], entity, now)
         IN  IF read(entities[DbSite], id) # None
               THEN FactoryRefuses("factory.create", id, "already_exists")
             ELSE IF st \notin TypeStatuses[entity_type]
               THEN FactoryRefuses("factory.create", id, "invalid_status")
             ELSE FactoryPersists("factory.create", id, out,
                                  out.result = "ok", "created", out.value,
                                  NoStatus)
  /\ UNCHANGED factoryRest

\* EntityFactory.update with a status and no data updates
FactoryUpdate(id, status) ==
  /\ Mutable
  /\ LET existing == read(entities[DbSite], id)
         entity == IF status = NoStatus THEN existing
                   ELSE [existing EXCEPT !.status = status]
         out == update(entities[DbSite], versions[DbSite], entity,
                       clock[DbSite])
     IN  IF existing = None
           THEN FactoryRefuses("factory.update", id, "not_found")
         ELSE IF status # NoStatus /\ status \notin TypeStatuses[existing.type]
           THEN FactoryRefuses("factory.update", id, "invalid_status")
         ELSE FactoryPersists("factory.update", id, out, out.result = "ok",
                              "updated", out.value, existing.status)
  /\ UNCHANGED factoryRest

\* EntityFactory.delete
FactoryDelete(id) ==
  /\ Mutable
  /\ LET existing == read(entities[DbSite], id)
         out == delete(entities[DbSite], versions[DbSite], id, clock[DbSite])
     IN  IF existing = None
           THEN /\ ret' = [op |-> "factory.delete", id |-> id,
                           result |-> "ok", value |-> Scalar(FALSE)]
                /\ observer' = [observer EXCEPT !.invoked = <<>>]
                /\ UNCHANGED <<storeVars, clock>>
           ELSE FactoryPersists("factory.delete", id, out,
                                out.result = "ok" /\ out.value = Scalar(TRUE),
                                "deleted", existing, NoStatus)
  /\ UNCHANGED factoryRest

NextFactory ==
  \/ \E c \in Callbacks : OnChange(c)
  \/ \E c \in Callbacks : OffChange(c)
  \/ \E i \in FactoryInputs, st \in FactoryStatuses :
        FactoryCreate(i[1], i[2], st)
  \/ \E id \in Ids, st \in FactoryStatuses : FactoryUpdate(id, st)
  \/ \E id \in Ids : FactoryDelete(id)

SpecFactory == Init /\ [][NextFactory]_vars

\* ================================================================== claims
Row(id) == entities[DbSite][id]
Log == versions[DbSite]
Inputs == EntityInputs(entities[DbSite], clock[DbSite])

\* the step is the call create(e), update(e), or the write of a delete
CreateCall(e) == ret'.op = "create" /\ ret'.id = e.id /\ Create(e)
UpdateCall(e) == ret'.op = "update" /\ ret'.id = e.id /\ Update(e)
DeleteCall(w) == ret'.op = "delete" /\ dsel[w] # None /\ DeleteWrite(w)

\* an update of id from version v has been committed
UpdatedFrom(id, v) ==
  \E i \in 1..Len(Log) :
     /\ Log[i].entity_id = id
     /\ Log[i].change_type = "update"
     /\ Log[i].version = v + 1

\* C1: no lost update.  Once an update of an entity from version v has been
\* committed by one connection, an update from the same version v by any
\* other connection does not succeed and leaves the row and the change log
\* as they are; while the row exists it fails with the version conflict.  So
\* of two writers that read version v at most one succeeds and the loser's
\* payload never reaches the row.
C1_NoLostUpdate ==
  [][\A e \in Inputs :
       (UpdateCall(e) /\ UpdatedFrom(e.id, e.version)) =>
          /\ ret'.result # "ok"
          /\ UNCHANGED storeVars
          /\ Row(e.id) # None => ret'.result = "version_conflict"]_vars

\* a stale update was refused after another update from version 1 won
C1_Witness ==
  /\ ret.op = "update"
  /\ ret.result = "version_conflict"
  /\ ret.value = Scalar(2)
  /\ UpdatedFrom(ret.id, 1)
  /\ Row(ret.id) # None /\ Row(ret.id).version = 2

\* what a successful update(e) leaves behind
UpdatePost(e) ==
  /\ ret'.result = "ok"
  /\ Row(e.id)' # None
  /\ Row(e.id)'.status = e.status
  /\ json_loads(Row(e.id)'.data) = e.data
  /\ Row(e.id)'.version = e.version + 1
  /\ Len(Log') = Len(Log) + 1
  /\ SubSeq(Log', 1, Len(Log)) = Log
  /\ Log'[Len(Log')].entity_id = e.id
  /\ Log'[Len(Log')].change_type = "update"
  /\ Log'[Len(Log')].version = e.version + 1

\* C2 as stated: update(e) on a row whose version equals e.version succeeds
\* and leaves e's status and data at version e.version + 1 with exactly one
\* update record of that version appended.
C2_Original ==
  [][\A e \in Inputs :
       (UpdateCall(e) /\ Row(e.id) # None /\ Row(e.id).version = e.version) =>
          UpdatePost(e)]_vars

\* C2, amended: the same, for an entity whose status passes the CHECK
\* constraint of the entities table.
C2_UpdateSucceeds ==
  [][\A e \in Inputs :
       (/\ UpdateCall(e)
        /\ Row(e.id) # None /\ Row(e.id).version = e.version
        /\ e.status \in ALL_VALID_STATUSES) =>
          UpdatePost(e)]_vars

C2_Witness ==
  /\ ret.op = "update"
  /\ ret.result = "ok"
  /\ Row(ret.id) # None
  /\ Row(ret.id).version = 3
  /\ Log[Len(Log)].change_type = "update"
  /\ Log[Len(Log)].version = 3

\* C3: update(e) on a row whose version differs from e.version raises the
\* version conflict and leaves the row and the change log unchanged.
C3_StaleUpdateRefused ==
  [][\A e \in Inputs :
       (UpdateCall(e) /\ Row(e.id) # None /\ Row(e.id).version # e.version) =>
          /\ ret'.result = "version_conflict"
          /\ UNCHANGED storeVars]_vars

\* a conflict raised for a version above the stored one
C3_Witness ==
  /\ ret.op = "update"
  /\ ret.result = "version_conflict"
  /\ ret.value = Scalar(1)
  /\ Row(ret.id) # None /\ Row(ret.id).version = 1

ValidEntity(e) == e.type \in VALID_TYPES /\ e.status \in ALL_VALID_STATUSES

\* C4: for every valid e whose id is not in the store, create(e) followed by
\* read(e.id) returns e's id, type, status and data at version 1.
C4_CreateThenRead ==
  [][\A e \in Inputs :
       (CreateCall(e) /\ ValidEntity(e) /\ Row(e.id) = None) =>
          LET got == read(entities'[DbSite], e.id)
          IN  /\ got # None
              /\ got.id = e.id /\ got.type = e.type
              /\ got.status = e.status /\ got.data = e.data
              /\ got.version = 1]_vars

\* what create(e) on an id that has a row leaves
CreateRefused(e) ==
  /\ ret'.result = "already_exists"
  /\ UNCHANGED storeVars

\* C5 as stated: create(e) when a row with e.id exists fails with the
\* already-exists error and changes neither the row nor the change log.
C5_Original ==
  [][\A e \in Inputs :
       (CreateCall(e) /\ Row(e.id) # None) => CreateRefused(e)]_vars

\* C5, amended: the same, for an entity that passes the CHECK constraints
\* of the entities table (one that does not fails with the schema error;
\* the tables are unchanged in both cases).
C5_DuplicateRefused ==
  [][\A e \in Inputs :
       (CreateCall(e) /\ Row(e.id) # None) =>
          /\ UNCHANGED storeVars
          /\ ValidEntity(e) => CreateRefused(e)]_vars

C5_Witness ==
  /\ ret.op = "create"
  /\ ret.result = "already_exists"
  /\ Row(ret.id) # None

\* the delete records of id that get_changes_since(0) returns
DeleteChanges(vers, id) ==
  SelectSeq(get_changes_since(vers, 0),
            LAMBDA c : c[2] = "delete" /\ c[1].id = id)

\* C6: after a successful delete(id), read(id) returns nothing and
\* changes_since(0) holds exactly one more record, a delete record of id
\* whose snapshot is the entity stored right before the delete.
C6_DeleteTracked ==
  [][\A w \in Writers :
       (DeleteCall(w) /\ ret'.result = "ok" /\ ret'.value = Scalar(TRUE)) =>
          LET id == dsel[w].id
              before == get_changes_since(Log, 0)
              after == get_changes_since(Log', 0)
          IN  /\ read(entities'[DbSite], id) = None
              /\ Len(after) = Len(before) + 1
              /\ \A i \in 1..Len(before) : \E j \in 1..Len(after) :
                    after[j] = before[i]
              /\ Len(DeleteChanges(Log', id)) =
                    Len(DeleteChanges(Log, id)) + 1
              /\ DeleteChanges(Log', id)[Len(DeleteChanges(Log', id))][1] =
                    read(entities[DbSite], id)]_vars

\* an updated entity was deleted
C6_Witness ==
  /\ ret.op = "delete"
  /\ ret.result = "ok"
  /\ ret.value = Scalar(TRUE)
  /\ Row(ret.id) = None
  /\ Len(DeleteChanges(Log, ret.id)) = 1
  /\ DeleteChanges(Log, ret.id)[1][1].version = 2

\* C7: the change log is append-only.  No create, update, delete or sync
\* step removes or alters a version record, each changes a store's rows
\* exactly when it appends exactly one record, and whatever
\* changes_since(0) returned it keeps returning.
C7_AppendOnly ==
  [][\A s \in Sites :
       /\ entities'[s] # entities[s] => versions'[s] # versions[s]
       /\ versions'[s] # versions[s] =>
             /\ entities'[s] # entities[s]
             /\ Len(versions'[s]) = Len(versions[s]) + 1
             /\ SubSeq(versions'[s], 1, Len(versions[s])) = versions[s]
             /\ LET before == get_changes_since(versions[s], 0)
                    after == get_changes_since(versions'[s], 0)
                IN  \A i \in 1..Len(before) : \E j \in 1..Len(after) :
                       after[j] = before[i]]_vars

\* a store that deleted an entity on a peer's DELETE still returns the
\* create record of the entity
C7_Witness ==
  \E s \in Sites, id \in Ids :
     /\ entities[s][id] = None
     /\ \E i \in 1..Len(changes[s]) :
           /\ changes[s][i].site_id # s
           /\ changes[s][i].change_type = "DELETE"
           /\ changes[s][i].entity_id = id
     /\ \E c \in {get_changes_since(versions[s], 0)[i] :
                    i \in 1..Len(versions[s])} :
           c[2] = "create" /\ c[1].id = id
     /\ \E c \in {get_changes_since(versions[s], 0)[i] :
                    i \in 1..Len(versions[s])} :
           c[2] = "delete" /\ c[1].id = id

\* C8: changes_since(n) returns exactly the records of the mutations after
\* the n-th of the store, whatever entities they touched: the counter is
\* store-wide.
C8_GlobalCounter ==
  \A n \in 0..Len(Log) :
     get_changes_since(Log, n) =
       [i \in 1..(Len(Log) - n) |->
          <<from_dict(Log[n + i].data_snapshot), Log[n + i].change_type>>]

AllChanges ==
  UNION { { changes[s][i] : i \in 1..Len(changes[s]) } : s \in Sites }
Authors(id) == { c.site_id : c \in { c \in AllChanges : c.entity_id = id } }

\* the two stores hold the same status, data and version for id
Agree(id) ==
  LET a == entities["A"][id]
      b == entities["B"][id]
  IN  \/ a = None /\ b = None
      \/ /\ a # None /\ b # None
         /\ a.status = b.status /\ a.data = b.data /\ a.version = b.version

\* the last change of id in the ledger of its author is not a DELETE
Kept(id) ==
  \E s \in Authors(id) :
     LET mine == SelectSeq(changes[s],
                           LAMBDA c : c.entity_id = id /\ c.site_id = s)
     IN  mine[Len(mine)].change_type # "DELETE"

\* C10: after the first sync_with, every entity that one site alone created
\* (and possibly modified) is in both stores with the same status, data and
\* version.
C10_Convergence ==
  (ret.op = "sync_with" /\ ret.result = "ok" /\ hist.syncs = 1) =>
     \A id \in Ids :
        Cardinality(Authors(id)) = 1 =>
           /\ Agree(id)
           /\ Kept(id) => entities["A"][id] # None

\* A created and updated feature-x, B created task-y, one sync_with ended
C10_Witness ==
  /\ ret.op = "sync_with" /\ ret.result = "ok" /\ hist.syncs = 1
  /\ Authors("feature-x") = {"A"} /\ Authors("task-y") = {"B"}
  /\ entities["B"]["feature-x"] # None
  /\ entities["B"]["feature-x"].version = 2
  /\ entities["A"]["task-y"] # None

\* the changes of site s that its watermark for the peer covers and that the
\* peer did not author
Covered(s) ==
  LET r == Peer(s)
  IN  { changes[s][i] :
          i \in { i \in 1..Len(changes[s]) :
                    i <= siteVersion[s][r] /\ changes[s][i].site_id # r } }

\* C12: a watermark covers only changes the receiving site has applied.  In
\* every state, each change a site's watermark for its peer covers is in the
\* peer's ledger and its projection onto the peer's store did not raise.
C12_WatermarkAfterApply ==
  \A s \in Sites : \A c \in Covered(s) :
     /\ IsRecorded(changes[Peer(s)], c)
     /\ Failure(Peer(s), c) \notin hist.failed

\* the batch of the sync_with in progress that is being applied, and the
\* site it is applied to
Batch(pc) ==
  IF pc = "receive" THEN sync.remote_changes ELSE sync.changes_to_send
Receiver(pc) == IF pc = "receive" THEN sync.local ELSE sync.remote

\* C13: a change of a batch whose application fails neither stops sync_with
\* nor goes unreported.  Every step of either loop that applies a change
\* whose projection raises goes on to the rest of the batch and adds one
\* entry to the errors sync_with returns.
C13_FailuresCollected ==
  [][\A pc \in {"receive", "send"} :
       (/\ sync.pc = pc
        /\ Batch(pc) # <<>>
        /\ Applied(Receiver(pc), Head(Batch(pc))).failed) =>
          /\ sync'.pc = pc
          /\ Batch(pc)' = Tail(Batch(pc))
          /\ Len(sync'.errors) = Len(sync.errors) + 1]_vars

\* the change of failure f is in the batch that the sync_with call c (its
\* locals) has read for the site where it failed
Retried(f, c) ==
  LET batch == IF f.site = c.local THEN c.remote_changes
                                   ELSE c.changes_to_send
  IN  \E i \in 1..Len(batch) :
         batch[i].site_id = f.site_id /\ batch[i].version = f.version

\* C14: a change whose application failed stays unacknowledged and is
\* attempted again.  Every sync_with that begins reads, for each change whose
\* projection raised earlier, that change into the batch for the site where
\* it raised.
C14_FailedChangeRetried ==
  [][(sync.pc = "idle" /\ sync'.pc = "receive") =>
        \A f \in hist.failed : Retried(f, sync')]_vars

SameData(id) ==
  LET a == entities["A"][id]
      b == entities["B"][id]
  IN  \/ a = None /\ b = None
      \/ a # None /\ b # None /\ a.status = b.status /\ a.data = b.data

\* C11: eventual convergence.  Whatever the two sites created, updated and
\* deleted, the same ids on both included, repeated sync_with brings the
\* stores to the same ids with the same status and data.  A sync_with that
\* follows another with no mutation in between moves nothing (C9), and so
\* does every later one: the stores it leaves are the stores for good, and
\* they agree.
C11_EventualConvergence ==
  (ret.op = "sync_with" /\ ret.result = "ok" /\ hist.quiet >= 2) =>
     \A id \in Ids : SameData(id)

\* ------------------------------------------------------- conflict claims
\* the call that just returned, and what it was handed
Detect == ret.op = "detect_conflict"
LWW == ret.op = "LastWriteWinsResolver.resolve"
Merge == ret.op = "MergeFieldsResolver.resolve"
RemoteVersion(d) == IF "version" \in DOMAIN d THEN d.version ELSE 0

\* the remote payload holds the id, type, status and data of the entity
SamePayload(e, d) ==
  /\ {"id", "type", "status", "data"} \subseteq DOMAIN d
  /\ d.id = e.id /\ d.type = e.type /\ d.status = e.status
  /\ d.data = e.data

\* C16: detect_conflict returns a Conflict exactly when the version R of
\* the remote payload is greater than the version L of the local entity and
\* the payloads differ; for R <= L it returns none.
C16_ConflictIff ==
  Detect =>
    LET e == ret.args.local_entity
        d == ret.args.remote_data
    IN  ret.value # None <=>
          (RemoteVersion(d) > e.version /\ ~SamePayload(e, d))

\* C17: no false conflict.  When the remote payload holds the id, type,
\* status and data of the local entity at another version number,
\* detect_conflict returns none.
C17_NoFalseConflict ==
  Detect =>
    LET e == ret.args.local_entity
        d == ret.args.remote_data
    IN  (SamePayload(e, d) /\ RemoteVersion(d) # e.version) =>
           ret.value = None

\* the instant of a timestamp, in hours; a naive one is read as UTC
Instant(ts) ==
  IF IsStr(ts)
    THEN LET dt == datetime_fromisoformat(replace_Z(ts.str))
         IN  dt.wall - dt.utcoffset
    ELSE ts.datetime

\* C18: LastWriteWins returns LOCAL_WINS with the local payload when the
\* local timestamp is later than or equal to the remote one and REMOTE_WINS
\* with the remote payload otherwise, whatever the two versions.
C18_LastWriteWins ==
  LWW =>
    LET c == ret.args.conflict
    IN  /\ ret.result = "ok"
        /\ ret.value =
             IF Instant(c.local_timestamp) >= Instant(c.remote_timestamp)
               THEN ConflictResult(c, "local_wins", c.local_data)
               ELSE ConflictResult(c, "remote_wins", c.remote_data)

\* the side the settings name for a key
PrioritySide(key) ==
  IF key \in DOMAIN ret.args.field_priorities
    THEN ret.args.field_priorities[key]
    ELSE ret.args.default_priority

\* C19: for every key present in both payloads with differing values, null
\* included, the resolved data of FieldMerge carries the value of the side
\* the per-field override names, else of the default-priority side.
C19_PriorityDecides ==
  Merge =>
    LET l == ret.args.conflict.local_data
        r == ret.args.conflict.remote_data
    IN  \A key \in DOMAIN l \cap DOMAIN r :
           l[key] # r[key] =>
              ret.value.resolved_data[key] =
                IF PrioritySide(key) = "local" THEN l[key] ELSE r[key]

\* C20: the resolved data of FieldMerge has exactly the union of the keys of
\* both payloads; a key of one side only takes that side's value whatever
\* the priorities, a key with equal values on both sides keeps the value,
\* and the resolution is always MERGED.
C20_MergeUnion ==
  Merge =>
    LET l == ret.args.conflict.local_data
        r == ret.args.conflict.remote_data
        m == ret.value.resolved_data
    IN  /\ ret.value.resolution = "merged"
        /\ DOMAIN m = DOMAIN l \cup DOMAIN r
        /\ \A key \in DOMAIN l \ DOMAIN r : m[key] = l[key]
        /\ \A key \in DOMAIN r \ DOMAIN l : m[key] = r[key]
        /\ \A key \in DOMAIN l \cap DOMAIN r :
              l[key] = r[key] => m[key] = l[key]

\* a merge with remote priority for every key of a local payload that alone
\* holds status and a remote payload that alone holds name
C20_Witness ==
  /\ Merge
  /\ ret.args.default_priority = "remote"
  /\ ret.args.field_priorities = [k \in {} |-> "local"]
  /\ ret.args.conflict.local_data = [status |-> JsonStr("A")]
  /\ ret.args.conflict.remote_data = [name |-> JsonStr("B")]
  /\ ret.value.resolved_data =
       [status |-> JsonStr("A"), name |-> JsonStr("B")]

\* a resolver was called (a built-in one: these four are all the model has)
HVW == ret.op = "HigherVersionWinsResolver.resolve"
Deferred == ret.op = "DeferResolver.resolve"
Resolved == LWW \/ HVW \/ Merge \/ Deferred

\* C21: HigherVersionWins returns LOCAL_WINS with the local payload when the
\* local version is greater than or equal to the remote one and REMOTE_WINS
\* with the remote payload otherwise, whatever the timestamps.
C21_HigherVersionWins ==
  HVW =>
    LET c == ret.args.conflict
    IN  /\ ret.result = "ok"
        /\ ret.value =
             IF c.local_version >= c.remote_version
               THEN ConflictResult(c, "local_wins", c.local_data)
               ELSE ConflictResult(c, "remote_wins", c.remote_data)

\* equal versions, the remote timestamp the later one: local wins
C21_Witness ==
  /\ HVW
  /\ ret.args.conflict.local_version = ret.args.conflict.remote_version
  /\ ret.args.conflict.local_timestamp = Str(<<"iso", 1, "Z">>)
  /\ ret.args.conflict.remote_timestamp = Str(<<"iso", 2, "Z">>)
  /\ ret.value.resolution = "local_wins"
  /\ ret.value.resolved_data = ret.args.conflict.local_data

\* C22: for every built-in resolver and every conflict, the resolved data of
\* the result is absent exactly when the resolution is DEFERRED, and Defer
\* returns DEFERRED for every conflict.
C22_DataAbsentIffDeferred ==
  /\ (Resolved /\ ret.result = "ok") =>
        (ret.value.resolved_data = None <=> ret.value.resolution = "deferred")
  /\ Deferred => ret.result = "ok" /\ ret.value.resolution = "deferred"

\* Defer was handed a Conflict that detect_conflict returned
C22_Witness ==
  /\ Deferred
  /\ ~IsStr(ret.args.conflict.local_timestamp)
  /\ ret.value.resolution = "deferred"
  /\ ret.value.resolved_data = None

Count(items, x) == Cardinality({i \in 1..Len(items) : items[i] = x})

\* what a step of the queue does to the two lists
QueueStep ==
  /\ ret'.op = "ConflictQueue.add" =>
       /\ queue'.conflicts = Append(queue.conflicts, ret'.args.conflict)
       /\ queue'.resolved = queue.resolved
  /\ (ret'.op = "ConflictQueue.resolve" /\ ret'.result = "ok") =>
       /\ Len(queue'.conflicts) = Len(queue.conflicts) - 1
       /\ \A c \in QueueConflicts :
             Count(queue'.conflicts, c) =
               IF c = ret'.args.conflict
                 THEN Count(queue.conflicts, c) - 1
                 ELSE Count(queue.conflicts, c)
       /\ queue'.resolved = Append(queue.resolved, ret'.value)
       /\ ret'.value.conflict = ret'.args.conflict
  /\ (ret'.op = "ConflictQueue.resolve" /\ ret'.result # "ok") =>
       queue' = queue
  /\ ret'.op = "ConflictQueue.clear" =>
       queue'.conflicts = <<>> /\ queue'.resolved = <<>>

\* C24: ConflictQueue.  add(c) appends c to pending; resolve(c, kind, data)
\* takes one c out of pending and appends one result to resolved in the same
\* step, and a resolve that fails changes nothing; clear() empties both
\* lists.  At all times since the last clear the pending and the resolved
\* conflicts together are as many as the add calls.
C24_QueueMoves ==
  /\ [](Len(queue.conflicts) + Len(queue.resolved) = queue.adds)
  /\ [][QueueStep]_vars

\* one Conflict was added twice and resolved once, its second copy and
\* another Conflict are pending
C24_Witness ==
  /\ ret.op = "ConflictQueue.resolve" /\ ret.result = "ok"
  /\ queue.adds = MaxAdds
  /\ Len(queue.conflicts) = 2 /\ Len(queue.resolved) = 1
  /\ queue.conflicts[1] # queue.conflicts[2]
  /\ contains(queue.conflicts, ret.args.conflict)

\* a caller can tell exception x from exception y: by its class, or by the
\* fixed text its message begins with
TellApart(x, y) == x.class # y.class \/ x.message[1] # y.message[1]

\* C25: update(e) for an id with no stored row fails with a not-found error
\* that differs from every version-conflict error, and a version-conflict
\* error reports the version stored for the id.
C25_NotFoundTold ==
  [][\A e \in Inputs :
       UpdateCall(e) =>
          /\ Row(e.id) = None =>
                /\ ret'.result = "not_found"
                /\ \A v \in 1..(MaxOps + MaxInputVersion) :
                      TellApart(exception_of(e.id, ret'.result, ret'.value),
                                exception_of(e.id, "version_conflict",
                                             Scalar(v)))
          /\ ret'.result = "version_conflict" =>
                /\ Row(e.id) # None
                /\ exception_of(e.id, ret'.result, ret'.value).message[2] =
                     Row(e.id).version]_vars

\* an update of feature-x after its delete: the id vanished
C25_Witness ==
  /\ ret.op = "update" /\ ret.id = "feature-x"
  /\ ret.result = "not_found"
  /\ Row("feature-x") = None
  /\ Log # <<>>
  /\ Log[Len(Log)].change_type = "delete"
  /\ Log[Len(Log)].entity_id = "feature-x"

\* C28: no raw storage-engine integrity error escapes.  A create or update
\* that fails raises a domain error, never sqlite3.IntegrityError, and
\* leaves the tables unchanged.
C28_NoRawIntegrityError ==
  [][\A e \in Inputs :
       ((CreateCall(e) \/ UpdateCall(e)) /\ ret'.result # "ok") =>
          /\ exception_of(e.id, ret'.result, ret'.value).class #
               "sqlite3.IntegrityError"
          /\ UNCHANGED storeVars]_vars

\* the step is the call delete(id) of the SyncableRepository of site s
SyncableDeleteCall(s, id) ==
  ret'.op = "delete" /\ ret'.id = id /\ SyncableDelete(s, id)

\* C26: delete(id) for an id with no stored row returns false and leaves the
\* entity table and the change log unchanged; through SyncableRepository it
\* records no change either, and the current version of the tracker stays.
C26_DeleteAbsent ==
  /\ [](\A s \in Sites, id \in Ids :
          entities[s][id] = None =>
             delete(entities[s], versions[s], id, clock[s]) =
               Outcome(entities[s], versions[s], "ok", Scalar(FALSE)))
  /\ [][\A s \in Sites, id \in Ids :
          (SyncableDeleteCall(s, id) /\ entities[s][id] = None) =>
             /\ ret'.result = "ok" /\ ret'.value = Scalar(FALSE)
             /\ UNCHANGED <<entities, versions, changes>>
             /\ get_current_version(changes'[s]) =
                  get_current_version(changes[s])]_vars

\* a second delete of an id that one site created and deleted
C26_Witness ==
  /\ ret.op = "delete" /\ ret.result = "ok" /\ ret.value = Scalar(FALSE)
  /\ \A s \in Sites : entities[s][ret.id] = None
  /\ \E s \in Sites :
        /\ Len(changes[s]) = 2
        /\ changes[s][2].change_type = "DELETE"
        /\ changes[s][2].entity_id = ret.id

\* the step is a call of the SyncableRepository of site s
SyncableCreateCall(s, e) ==
  ret'.op = "create" /\ ret'.id = e.id /\ SyncableCreate(s, e)
SyncableUpdateCall(s, e) ==
  ret'.op = "update" /\ ret'.id = e.id /\ SyncableUpdate(s, e)
SyncableQueryCall(s) ==
  \/ \E id \in Ids : ret'.op = "read" /\ SyncableRead(s, id)
  \/ \E t \in {IdType[i] : i \in Ids} : ret'.op = "list" /\ SyncableList(s, t)

\* the step appends to the ledger of site s exactly one change, of the given
\* kind, stamped with s and carrying the payload, and leaves the ledger of
\* the other site alone
RecordsOne(s, kind, id, payload) ==
  /\ Len(changes'[s]) = Len(changes[s]) + 1
  /\ SubSeq(changes'[s], 1, Len(changes[s])) = changes[s]
  /\ LET c == changes'[s][Len(changes'[s])]
     IN  /\ c.change_type = kind
         /\ c.site_id = s
         /\ c.entity_id = id
         /\ c.table_name = "entities"
         /\ c.value = payload
  /\ changes'[Peer(s)] = changes[Peer(s)]

\* C27: each successful create, update or delete through SyncableRepository
\* records exactly one change of kind INSERT, UPDATE or DELETE, stamped with
\* the local site id and carrying the payload of the entity; read and list,
\* and the mutations that fail or find nothing, record no change.
C27_OneChangePerMutation ==
  [][\A s \in Sites :
       /\ \A e \in SyncInputs(s) :
            /\ SyncableCreateCall(s, e) =>
                 IF ret'.result = "ok"
                   THEN RecordsOne(s, "INSERT", e.id, to_dict(ret'.value))
                   ELSE changes' = changes
            /\ SyncableUpdateCall(s, e) =>
                 IF ret'.result = "ok"
                   THEN RecordsOne(s, "UPDATE", e.id, to_dict(ret'.value))
                   ELSE changes' = changes
       /\ \A id \in Ids :
            SyncableDeleteCall(s, id) =>
              IF ret'.result = "ok" /\ ret'.value = Scalar(TRUE)
                THEN RecordsOne(s, "DELETE", id,
                                to_dict(read(entities[s], id)))
                ELSE changes' = changes
       /\ SyncableQueryCall(s) => changes' = changes]_vars

\* a site has created, updated and deleted an entity and then lists its type:
\* its ledger holds the three changes and no more
C27_Witness ==
  /\ ret.op = "list" /\ ret.value = {}
  /\ \E s \in Sites :
        /\ Len(changes[s]) = 3
        /\ changes[s][1].change_type = "INSERT"
        /\ changes[s][2].change_type = "UPDATE"
        /\ changes[s][3].change_type = "DELETE"
        /\ \A i \in 1..3 : changes[s][i].site_id = s
        /\ changes[Peer(s)] = <<>>

\* C29: when reading or writing a watermark fails during sync_with, the call
\* fails and both watermarks of the pair of sites are what they were when
\* the call started: the two updates take effect together or not at all.
C29_WatermarksTogether ==
  [][/\ (\E l \in Sites : SyncReadFails(l)) => UNCHANGED siteVersion
     /\ (SyncMarkLocalFails \/ SyncMarkRemoteFails) =>
          /\ ret'.op = "sync_with" /\ ret'.result = "tracker_error"
          /\ siteVersion'[sync.local][sync.remote] =
               sync.last_remote_version
          /\ siteVersion'[sync.remote][sync.local] =
               sync.last_local_version_at_remote]_vars

\* the step is a factory call whose repository call committed a mutation
\* while a callback that raises was registered
CommitsWithRaisingCallback ==
  /\ versions'[DbSite] # versions[DbSite]
  /\ contains(observer.callbacks, "raises")

\* C30: a subscriber callback that raises during emit does not keep the
\* other registered callbacks from being called, does not make emit (and so
\* the factory call) raise, and does not undo the mutation the factory has
\* committed: the row and the entry of the change log are as the event
\* reports them.
C30_CallbackErrorContained ==
  [][CommitsWithRaisingCallback =>
       /\ observer'.invoked = [i \in 1..Len(observer.callbacks) |-> i]
       /\ ret'.result = "ok"
       /\ Len(observer'.event_log) = Len(observer.event_log) + 1
       /\ Len(versions'[DbSite]) = Len(versions[DbSite]) + 1
       /\ LET event == observer'.event_log[Len(observer'.event_log)]
          IN  IF event.change_type = "deleted"
                THEN entities'[DbSite][event.entity_id] = None
                ELSE read(entities'[DbSite], event.entity_id) = event.entity
      ]_vars

\* factory.create has returned the entity with a raising callback registered
\* before a returning one: both were called and the row is stored
C30_Witness ==
  /\ ret.op = "factory.create" /\ ret.result = "ok"
  /\ observer.callbacks = <<"raises", "returns">>
  /\ observer.invoked = <<1, 2>>
  /\ Len(observer.event_log) = 1
  /\ observer.event_log[1].change_type = "created"
  /\ read(entities[DbSite], ret.id) = ret.value

\* ----------------------------------------------- projection of a change
\* the step of sync_with that projects a newly recorded change onto the
\* store of a site: the site, the change, and the step
ProjectionSite == IF sync.pc = "receive" THEN sync.local ELSE sync.remote
ProjectionBatch ==
  IF sync.pc = "receive" THEN sync.remote_changes ELSE sync.changes_to_send
ProjectedChange == Head(ProjectionBatch)
Projects(kind) ==
  /\ sync.pc \in {"receive", "send"}
  /\ ProjectionBatch # <<>>
  /\ ProjectedChange.change_type = kind
  /\ ~IsRecorded(changes[ProjectionSite], ProjectedChange)
  /\ (SyncReceive \/ SyncSend)

\* the rows of the other ids of site s stay
OtherRowsStay(s, id) ==
  \A i \in Ids \ {id} : entities'[s][i] = entities[s][i]

\* C31: applying a remote UPDATE changes the local row only if the id exists
\* locally and the remote version is greater than the local version; then
\* the row takes the remote status and data and its version becomes the
\* local version + 1; otherwise the local store is unchanged.
C31_RemoteUpdate ==
  [][Projects("UPDATE") =>
       LET s == ProjectionSite
           remote == from_dict(ProjectedChange.value)
           row == entities[s][remote.id]
       IN  IF row # None /\ remote.version > row.version
             THEN /\ entities'[s][remote.id] # None
                  /\ entities'[s][remote.id].status = remote.status
                  /\ entities'[s][remote.id].data = json_dumps(remote.data)
                  /\ entities'[s][remote.id].version = row.version + 1
                  /\ OtherRowsStay(s, remote.id)
                  /\ Len(versions'[s]) = Len(versions[s]) + 1
             ELSE UNCHANGED storeVars]_vars

\* a site holds feature-x at version 2 after an update that it did not
\* author: the update of its peer was projected onto its version 1
C31_Witness ==
  \E s \in Sites :
     /\ entities[s]["feature-x"] # None
     /\ entities[s]["feature-x"].version = 2
     /\ versions[s] # <<>>
     /\ versions[s][Len(versions[s])].change_type = "update"
     /\ \A i \in 1..Len(changes[s]) : changes[s][i].site_id = Peer(s)
     /\ \E i \in 1..Len(changes[s]) : changes[s][i].change_type = "UPDATE"

DeletedBefore(id) ==
  \E i \in 1..Len(Log) :
     Log[i].entity_id = id /\ Log[i].change_type = "delete"

\* C35: after delete(id) has succeeded, create of a valid entity with the
\* same id succeeds (create fails only when a live row with that id exists)
\* and read(id) then returns the new entity at version 1.
C35_CreateAfterDelete ==
  [][\A e \in Inputs :
       (CreateCall(e) /\ ValidEntity(e) /\ Row(e.id) = None
          /\ DeletedBefore(e.id)) =>
          /\ ret'.result = "ok"
          /\ read(entities'[DbSite], e.id) # None
          /\ read(entities'[DbSite], e.id).version = 1
          /\ read(entities'[DbSite], e.id).status = e.status]_vars

\* C33: applying a remote DELETE removes the local row when it is present,
\* whatever its local version, and is a no-op that reports no error when the
\* id is absent locally.
C33_RemoteDelete ==
  [][Projects("DELETE") =>
       LET s == ProjectionSite
           id == ProjectedChange.value.id
           row == entities[s][id]
       IN  /\ entities'[s][id] = None
           /\ OtherRowsStay(s, id)
           /\ sync'.errors = sync.errors
           /\ hist'.failed = hist.failed
           /\ IF row = None
                THEN UNCHANGED storeVars
                ELSE /\ Len(versions'[s]) = Len(versions[s]) + 1
                     /\ versions'[s][Len(versions'[s])].change_type = "delete"
                     /\ versions'[s][Len(versions'[s])].version =
                          row.version + 1]_vars

\* a site has lost feature-x at its own version 2 to a delete that its peer
\* made of version 1
C33_Witness ==
  \E s \in Sites :
     /\ entities[s]["feature-x"] = None
     /\ versions[s] # <<>>
     /\ versions[s][Len(versions[s])].change_type = "delete"
     /\ versions[s][Len(versions[s])].version = 3
     /\ \E i \in 1..Len(changes[s]) :
           /\ changes[s][i].change_type = "DELETE"
           /\ changes[s][i].site_id = Peer(s)
           /\ changes[s][i].value.version = 1
     /\ \A i \in 1..Len(changes[s]) :
           changes[s][i].change_type = "DELETE" =>
              changes[s][i].site_id = Peer(s)

\* the version records of id in the change log, oldest first
RecordsOf(id) == SelectSeq(Log, LAMBDA r : r.entity_id = id)
LastRecord(id) == RecordsOf(id)[Len(RecordsOf(id))]

\* C34: in every state of one store, after failed and interrupted operations
\* too, a live row exists for an id iff the most recent version record of
\* the id is a create or an update, and then the version of the row is the
\* version of that record.
C34_RowLogConsistent ==
  \A id \in Ids :
     /\ Row(id) # None <=>
          /\ RecordsOf(id) # <<>>
          /\ LastRecord(id).change_type \in {"create", "update"}
     /\ Row(id) # None => Row(id).version = LastRecord(id).version

\* a create of feature-x has failed after the delete of its row, and the
\* delete record is still the most recent one
C34_Witness ==
  /\ ret.op = "create" /\ ret.id = "feature-x" /\ ret.result # "ok"
  /\ Row("feature-x") = None
  /\ RecordsOf("feature-x") # <<>>
  /\ LastRecord("feature-x").change_type = "delete"

\* C37: under every interleaving of delete(id) with an update of the same id
\* that another connection commits, the delete record describes the row
\* actually removed: its snapshot is the last committed state of the row
\* and its version is the version of that state + 1.  A delete whose SELECT
\* was overtaken writes no record and removes nothing.
C37_DeleteRecordTrue ==
  [][\A w \in Writers :
       DeleteCall(w) =>
          LET id == dsel[w].id
              row == Row(id)
              rec == Log'[Len(Log')]
          IN  IF ret'.result = "ok" /\ ret'.value = Scalar(TRUE)
                THEN /\ row # None
                     /\ Len(Log') = Len(Log) + 1
                     /\ SubSeq(Log', 1, Len(Log)) = Log
                     /\ rec.entity_id = id /\ rec.change_type = "delete"
                     /\ rec.version = row.version + 1
                     /\ rec.data_snapshot.version = row.version
                     /\ rec.data_snapshot.status = row.status
                     /\ rec.data_snapshot.data = row.data
                     /\ rec.data_snapshot.updated_at = row.updated_at
                     /\ entities'[DbSite][id] = None
                ELSE /\ dsel[w] # row
                     /\ UNCHANGED storeVars]_vars

\* a delete of feature-x whose SELECT saw version 1 has failed after the
\* other connection committed the update to version 2: the row is there
C37_Witness ==
  /\ ret.op = "delete" /\ ret.id = "feature-x"
  /\ ret.result = "integrity_error"
  /\ Row("feature-x") # None
  /\ Row("feature-x").version = 2
  /\ LastRecord("feature-x").change_type = "update"
  /\ \A i \in 1..Len(Log) : Log[i].change_type # "delete"

\* C39: the watermark of a site for a peer never decreases, whatever local
\* mutations and sync_with calls follow one another.
C39_WatermarkMonotone ==
  [][\A s \in Sites, r \in Sites :
       siteVersion'[s][r] >= siteVersion[s][r]]_vars

\* the second sync_with has returned, a change was authored between the two
\* calls, and both watermarks have been written twice
C39_Witness ==
  /\ ret.op = "sync_with" /\ ret.result = "ok"
  /\ hist.syncs = 2 /\ hist.quiet = 1
  /\ siteVersion["A"]["B"] >= 2
  /\ siteVersion["B"]["A"] >= 1
  /\ Authored("A") >= 2 /\ Authored("B") >= 1

\* the changes of a ledger that site s authored
OwnChanges(ledger, s) == SelectSeq(ledger, LAMBDA c : c.site_id = s)

\* C40: projecting a received change onto the local store never records a
\* locally authored change: the changes of the ledger of a site that are
\* stamped with its own id grow only by a successful local create, update
\* or delete, one at a time, and never during sync_with.
C40_OwnChangesOnlyLocal ==
  [][\A s \in Sites :
       /\ sync.pc # "idle" =>
            OwnChanges(changes'[s], s) = OwnChanges(changes[s], s)
       /\ OwnChanges(changes'[s], s) # OwnChanges(changes[s], s) =>
            /\ sync.pc = "idle" /\ sync'.pc = "idle"
            /\ ret'.op \in {"create", "update", "delete"}
            /\ ret'.result = "ok"
            /\ Len(OwnChanges(changes'[s], s)) =
                 Len(OwnChanges(changes[s], s)) + 1
            /\ SubSeq(OwnChanges(changes'[s], s), 1,
                      Len(OwnChanges(changes[s], s))) =
                 OwnChanges(changes[s], s)]_vars

\* a site that authored nothing holds feature-x and its version record: the
\* create of its peer was projected, and its ledger holds that change only
C40_Witness ==
  \E s \in Sites :
     /\ OwnChanges(changes[s], s) = <<>>
     /\ entities[s]["feature-x"] # None
     /\ Len(versions[s]) = 1
     /\ Len(changes[s]) = 1
     /\ changes[s][1].site_id = Peer(s)

\* C38: applying the same batch of remote changes twice through
\* apply_remote_changes leaves the local rows (status, data, version) and
\* the local change log as applying it once does.
C38_ApplyTwice ==
  \A s \in Sites : \A batch \in Batches(s) :
     LET once == apply_remote_changes(entities[s], versions[s], changes[s],
                                      batch, clock[s])
         twice == apply_remote_changes(once.entities, once.versions,
                                       once.ledger, batch, clock[s] + 1
                                         + Len(once.versions)
                                         - Len(versions[s]))
     IN  /\ \A id \in Ids :
              /\ twice.entities[id] = None <=> once.entities[id] = None
              /\ once.entities[id] # None =>
                   /\ twice.entities[id].status = once.entities[id].status
                   /\ twice.entities[id].data = once.entities[id].data
                   /\ twice.entities[id].version = once.entities[id].version
         /\ twice.versions = once.versions

\* the changes of site l's ledger up to its watermark for the peer that the
\* peer did not author and has not recorded
Skipped(l) ==
  { p \in 1..Len(changes[l]) :
      /\ p <= siteVersion[l][Peer(l)]
      /\ changes[l][p].site_id # Peer(l)
      /\ ~IsRecorded(changes[Peer(l)], changes[l][p]) }

\* C36: a mutation committed on site A by another process while sync_with(A, B)
\* is in progress is not skipped: A's watermark for B is never set past a
\* change of A's ledger that was not in the batch read for B, so no change of
\* A at or below the watermark is missing at B.
C36_NoChangeSkipped == \A l \in Sites : Skipped(l) = {}

============================================================================
